---- MODULE Spec2Model ----
(***************************************************************************)
(* The two-tier documentation cache of augments_mcp/registry/cache.py:    *)
(* a bounded, recency-ordered memory tier with a namespace index, in      *)
(* front of a persistent key-value store with per-key expiry.             *)
(*                                                                         *)
(* Text values are TLA+ strings; time is measured in seconds, as           *)
(* time.time() is.  Optional[str] is a sequence of length 0 (None) or 1.   *)
(***************************************************************************)
EXTENDS Integers, Sequences, FiniteSets, TLC

\* ------------------------------------------------------------------ bounds

\* Capacity of the memory tier.  The source sets 100 (cache.py:16); the model
\* checks the same code with a small capacity so that the tier fills up.
MAX_MEMORY_CACHE_ENTRIES == 2

\* The clock advances in steps of TickStep seconds, MaxTicks times at most.
TickStep == 3600

MaxTicks == 2

\* ------------------------------------------------------------ input domains

Frameworks == {"react", "vue"}

\* The (framework, path, source_type) triples collaborators ask for.
Triples == {<<"react", "", "docs">>, <<"react", "guide", "docs">>, <<"vue", "", "docs">>}

\* Triples whose fields contain the ':' delimiter of the key derivation.
DelimTriples == {<<"a", "b:c", "docs">>, <<"a:b", "c", "docs">>, <<"a", "", "docs">>}

Contents == {"# Docs", "v2"}

Versions == {"latest", "5.0.0-dev"}

Branches == {"main"}

\* The (content, version, branch) combinations collaborators store: a stable
\* release and a development version, whose TTLs differ.
Payloads == {<<"# Docs", "latest", "main">>, <<"v2", "5.0.0-dev", "main">>}

\* ---------------------------------------------------------------- helpers

None == <<>>

Some(v) == <<v>>

UpperCase == "ABCDEFGHIJKLMNOPQRSTUVWXYZ"

LowerCase == "abcdefghijklmnopqrstuvwxyz"

\* str.lower() on one character.
LowerChar(ch) ==
  IF \E i \in 1..Len(UpperCase) : SubSeq(UpperCase, i, i) = ch
  THEN LET i == CHOOSE j \in 1..Len(UpperCase) : SubSeq(UpperCase, j, j) = ch
       IN  SubSeq(LowerCase, i, i)
  ELSE ch

RECURSIVE lower(_)
\* str.lower()
lower(s) ==
  IF Len(s) = 0 THEN s
  ELSE LowerChar(SubSeq(s, 1, 1)) \o lower(SubSeq(s, 2, Len(s)))

\* Python's `sub in s` on strings.
Contains(sub, s) ==
  \E i \in 1..(Len(s) - Len(sub) + 1) : SubSeq(s, i, i + Len(sub) - 1) = sub

\* hashlib.md5(...).hexdigest(): a fixed function of its input, taken to be
\* collision-free; keys are only ever compared for equality.
md5_hexdigest(data) == <<"md5", data>>

\* ------------------------------------------------- pure functions of the cache

\* TTL strategies (seconds).
cache_ttl == [stable |-> 24 * 60 * 60, beta |-> 6 * 60 * 60, dev |-> 1 * 60 * 60, default |-> 3 * 60 * 60]

\* A key derived from the namespace and the source kind alone, the names
\* list_keys reports.
_get_cache_key_NoPath(framework, path, source_type) ==
  LET key_data == framework \o ":" \o source_type
  IN  md5_hexdigest(key_data)

_get_cache_key(framework, path, source_type) ==
  LET key_data == framework \o ":" \o path \o ":" \o source_type
  IN  md5_hexdigest(key_data)

\* _determine_ttl with the beta rule tried before the development rule.
_determine_ttl_BetaFirst(framework, version, branch) ==
  LET version_lower == lower(version)
      branch_lower == lower(branch)
  IN  IF Contains("beta", version_lower) \/ Contains("rc", version_lower)
      THEN cache_ttl.beta
      ELSE IF /\ branch_lower \in {"dev", "develop", "development", "master", "main"}
              /\ (Contains("dev", version_lower) \/ Contains("alpha", version_lower))
      THEN cache_ttl.dev
      ELSE IF Contains("stable", version_lower) \/ version_lower = "latest"
      THEN cache_ttl.stable
      ELSE cache_ttl.default

_determine_ttl(framework, version, branch) ==
  LET version_lower == lower(version)
      branch_lower == lower(branch)
  IN  IF /\ branch_lower \in {"dev", "develop", "development", "master", "main"}
         /\ (Contains("dev", version_lower) \/ Contains("alpha", version_lower))
      THEN cache_ttl.dev
      ELSE IF Contains("beta", version_lower) \/ Contains("rc", version_lower)
      THEN cache_ttl.beta
      ELSE IF Contains("stable", version_lower) \/ version_lower = "latest"
      THEN cache_ttl.stable
      ELSE cache_ttl.default

\* _determine_ttl tabulated over the versions and branches of the model; the
\* framework argument has no part in its result.
TtlTable == [version \in Versions, branch \in Branches |-> _determine_ttl("", version, branch)]

\* CacheEntry(...)
CacheEntry(content, cached_at, ttl, version, framework, source_type) ==
  [content |-> content, cached_at |-> cached_at, ttl |-> ttl, version |-> version, framework |-> framework, source_type |-> source_type]

\* _is_expired with `>=` for `>`: an entry expires the moment its age equals its ttl.
_is_expired_AtBoundary(entry, t) == t - entry.cached_at >= entry.ttl

\* _is_expired with the operands of the subtraction swapped: nothing ever expires.
_is_expired_Reversed(entry, t) == entry.cached_at - t > entry.ttl

\* _is_expired at clock reading t.
_is_expired(entry, t) == t - entry.cached_at > entry.ttl

\* ------------------------------------------------------------------- state

VARIABLES
  memory_cache,     \* OrderedDict key -> CacheEntry, as a sequence of [key, entry]; least recently used first
  _framework_keys,  \* dict framework -> set of cache keys
  cache,            \* the persistent store: key -> [value, expire_time]
  now,              \* the reading of time.time()
  last,             \* the operation that ran last: its arguments, return value and log events
  latest,           \* history: triple -> what its most recent set stored, until it is invalidated or cleared
  recency,          \* history: the resident keys, least recently accessed first
  set_run,          \* history: the keys set, one after the other, since the memory tier was empty
  peer              \* the other process on the same cache directory: its pid, memory tier, index and recency

vars == <<memory_cache, _framework_keys, cache, now, last, latest, recency, set_run, peer>>

\* -------------------------------------------- the memory tier (OrderedDict)

\* cache_key in self.memory_cache
InMemory(mc, cache_key) == \E i \in DOMAIN mc : mc[i].key = cache_key

\* self.memory_cache[cache_key]
MemoryEntry(mc, cache_key) == mc[CHOOSE i \in DOMAIN mc : mc[i].key = cache_key].entry

\* del self.memory_cache[cache_key]
MemoryDel(mc, cache_key) == SelectSeq(mc, LAMBDA r : r.key # cache_key)

\* A memory hit that forgets move_to_end.
MemoryMoveToEnd_Forgotten(mc, cache_key) == mc

\* self.memory_cache.move_to_end(cache_key)
MemoryMoveToEnd(mc, cache_key) ==
  Append(MemoryDel(mc, cache_key), [key |-> cache_key, entry |-> MemoryEntry(mc, cache_key)])

\* self.memory_cache[cache_key] = entry: a new key goes to the end, an
\* existing key keeps its position.
MemoryAssign(mc, cache_key, entry) ==
  IF InMemory(mc, cache_key)
  THEN [i \in DOMAIN mc |-> IF mc[i].key = cache_key THEN [key |-> cache_key, entry |-> entry] ELSE mc[i]]
  ELSE Append(mc, [key |-> cache_key, entry |-> entry])

MemoryKeys(mc) == {mc[i].key : i \in DOMAIN mc}

\* ------------------------------------------------------ the namespace index

EmptyDict == [k \in {} |-> {}]

\* _add_to_index that records nothing.
_add_to_index_Forgotten(fk, cache_key, framework) == fk

_add_to_index(fk, cache_key, framework) ==
  LET fk1 == IF framework \notin DOMAIN fk THEN fk @@ (framework :> {}) ELSE fk
  IN  [fk1 EXCEPT ![framework] = @ \cup {cache_key}]

_remove_from_index(fk, cache_key, framework) ==
  IF framework \in DOMAIN fk
  THEN LET fk1 == [fk EXCEPT ![framework] = @ \ {cache_key}]
       IN  IF fk1[framework] = {}
           THEN [f \in (DOMAIN fk1) \ {framework} |-> fk1[f]]
           ELSE fk1
  ELSE fk

RECURSIVE EvictWhileFull_OffByOne(_)
\* The eviction loop with `>` for `>=`: it lets the tier grow one past its capacity.
EvictWhileFull_OffByOne(m) ==
  IF Len(m.mc) > MAX_MEMORY_CACHE_ENTRIES
  THEN LET oldest == Head(m.mc)
       IN  EvictWhileFull_OffByOne([mc |-> Tail(m.mc),
                                    fk |-> _remove_from_index(m.fk, oldest.key, oldest.entry.framework),
                                    evicted |-> Append(m.evicted, oldest.key)])
  ELSE m

RECURSIVE EvictWhileFull_PopLast(_)
\* The eviction loop with popitem() for popitem(last=False): it pops the most
\* recently used entry.
EvictWhileFull_PopLast(m) ==
  IF Len(m.mc) >= MAX_MEMORY_CACHE_ENTRIES
  THEN LET newest == m.mc[Len(m.mc)]
       IN  EvictWhileFull_PopLast([mc |-> SubSeq(m.mc, 1, Len(m.mc) - 1),
                                   fk |-> _remove_from_index(m.fk, newest.key, newest.entry.framework),
                                   evicted |-> Append(m.evicted, newest.key)])
  ELSE m

RECURSIVE EvictWhileFull(_)
\* The eviction loop: while len(self.memory_cache) >= MAX_MEMORY_CACHE_ENTRIES,
\* popitem(last=False) and revoke the popped key's index membership.
EvictWhileFull(m) ==
  IF Len(m.mc) >= MAX_MEMORY_CACHE_ENTRIES
  THEN LET oldest == Head(m.mc)
       IN  EvictWhileFull([mc |-> Tail(m.mc),
                           fk |-> _remove_from_index(m.fk, oldest.key, oldest.entry.framework),
                           evicted |-> Append(m.evicted, oldest.key)])
  ELSE m

\* _add_to_memory_cache without its first step: a key already resident is not
\* removed before the eviction loop runs.
_add_to_memory_cache_NoRemoveFirst(mc, fk, cache_key, entry) ==
  LET m1 == EvictWhileFull([mc |-> mc, fk |-> fk, evicted |-> <<>>])
  IN  [mc |-> MemoryAssign(m1.mc, cache_key, entry),
       fk |-> _add_to_index(m1.fk, cache_key, entry.framework),
       evicted |-> m1.evicted]

\* Returns the memory tier, the index and the keys evicted ("LRU eviction" events).
_add_to_memory_cache(mc, fk, cache_key, entry) ==
  LET m0 == IF InMemory(mc, cache_key)
            THEN [mc |-> MemoryDel(mc, cache_key),
                  fk |-> _remove_from_index(fk, cache_key, MemoryEntry(mc, cache_key).framework),
                  evicted |-> <<>>, resident |-> FALSE]
            ELSE [mc |-> mc, fk |-> fk, evicted |-> <<>>, resident |-> FALSE]
      m1 == EvictWhileFull(m0)
  IN  [mc |-> MemoryAssign(m1.mc, cache_key, entry),
       fk |-> _add_to_index(m1.fk, cache_key, entry.framework),
       evicted |-> m1.evicted]

\* ------------------------------------------- the persistent store (diskcache)

\* The dict written to the store for an entry.
EntryDict(entry) ==
  [content |-> entry.content, cached_at |-> entry.cached_at, ttl |-> entry.ttl, version |-> entry.version, framework |-> entry.framework, source_type |-> entry.source_type]

\* An entry rebuilt from a row and stamped with the time of the read.
FromDict_StampedAtRead(d) == CacheEntry(d.content, now, d.ttl, d.version, d.framework, d.source_type)

\* CacheEntry(**entry_data)
FromDict(d) == CacheEntry(d.content, d.cached_at, d.ttl, d.version, d.framework, d.source_type)

\* A row is served until its expire time has passed.  The store reads its clock
\* after the entry's cached_at was taken, so a row never expires before its entry.
RowLive(c, key, t) == key \in DOMAIN c /\ c[key].expire_time >= t

\* self.cache.get(key)
cache_get(c, key, t) == IF RowLive(c, key, t) THEN Some(c[key].value) ELSE None

\* A write that replaces the value of a row it finds but leaves the row's
\* expire time as the earlier write set it.
cache_set_KeepsExpireTime(c, key, value, expire, t) ==
  LET kept == {k \in DOMAIN c : RowLive(c, k, t)} \cup {key}
  IN  [k \in kept |-> IF k = key
                      THEN [value |-> value, expire_time |-> IF RowLive(c, key, t) THEN c[key].expire_time ELSE t + expire]
                      ELSE c[k]]

\* self.cache.set(key, value, expire=ttl); the store also culls the rows that
\* have expired.
cache_set(c, key, value, expire, t) ==
  LET kept == {k \in DOMAIN c : RowLive(c, k, t)} \cup {key}
  IN  [k \in kept |-> IF k = key THEN [value |-> value, expire_time |-> t + expire] ELSE c[k]]

\* A membership test that also finds the rows that have expired.
cache_contains_Physical(c, key, t) == key \in DOMAIN c

\* key in self.cache
cache_contains(c, key, t) == RowLive(c, key, t)

\* del self.cache[key]
cache_delitem(c, key) == [k \in (DOMAIN c) \ {key} |-> c[k]]

\* self.cache.iterkeys()
cache_iterkeys(c) == DOMAIN c

\* len(self.cache)
cache_len(c) == Cardinality(DOMAIN c)

EmptyStore == [k \in {} |-> {}]

\* ----------------------------------------------------------------- actions

\* A handler that catches KeyError only: the failure of a store operation
\* leaves the method as an exception.
except_Exception_KeyErrorOnly(failed) == failed

\* try: <store operations> except Exception: <log>.  Tells whether a failure of
\* the store operations leaves the method as an exception: the handler catches
\* every Exception and logs it, so none does.
except_Exception(failed) == FALSE

\* The state after __init__, on an empty cache directory.
__init__ ==
  /\ memory_cache = <<>>
  /\ _framework_keys = EmptyDict
  /\ cache = EmptyStore
  /\ now = 0
  /\ last = [op |-> "init", args |-> <<>>, ret |-> None, log |-> <<>>, evicted |-> <<>>, resident |-> FALSE, raised |-> FALSE]

\* get without the entry-level check on what the store returns: whatever row
\* the store serves is promoted and returned.
Get_TrustsStore(framework, path, source_type, read_ok) ==
  \E cache_key \in {_get_cache_key(framework, path, source_type)} :
  LET in_memory == InMemory(memory_cache, cache_key)
      mentry == MemoryEntry(memory_cache, cache_key)
      \* the memory tier and index once an expired entry has been removed
      mc1 == IF in_memory THEN MemoryDel(memory_cache, cache_key) ELSE memory_cache
      fk1 == IF in_memory THEN _remove_from_index(_framework_keys, cache_key, mentry.framework) ELSE _framework_keys
      entry_data == cache_get(cache, cache_key, now)
      dentry == FromDict(entry_data[1])
      m == _add_to_memory_cache(mc1, fk1, cache_key, dentry)
      args == <<framework, path, source_type>>
      expired_log == IF in_memory THEN <<"expired (memory)">> ELSE <<>>
  IN  /\ now' = now
      /\ IF in_memory /\ ~_is_expired(mentry, now)
         THEN /\ memory_cache' = MemoryMoveToEnd(memory_cache, cache_key)
              /\ UNCHANGED <<_framework_keys, cache>>
              /\ last' = [op |-> "get", args |-> args, ret |-> Some(mentry.content), log |-> <<"Cache hit (memory)">>, evicted |-> <<>>, resident |-> in_memory, raised |-> FALSE]
         ELSE IF read_ok /\ entry_data # None
         THEN IF TRUE
              THEN /\ memory_cache' = m.mc
                   /\ _framework_keys' = m.fk
                   /\ cache' = cache
                   /\ last' = [op |-> "get", args |-> args, ret |-> Some(dentry.content), log |-> expired_log \o <<"Cache hit (disk)">>, evicted |-> m.evicted, resident |-> in_memory, raised |-> FALSE]
              ELSE /\ memory_cache' = mc1
                   /\ _framework_keys' = fk1
                   /\ cache' = cache_delitem(cache, cache_key)
                   /\ last' = [op |-> "get", args |-> args, ret |-> None, log |-> expired_log \o <<"expired (disk)", "Cache miss">>, evicted |-> <<>>, resident |-> in_memory, raised |-> FALSE]
         ELSE /\ memory_cache' = mc1
              /\ _framework_keys' = fk1
              /\ cache' = cache
              /\ last' = [op |-> "get", args |-> args, ret |-> None, log |-> expired_log \o (IF read_ok THEN <<"Cache miss">> ELSE <<"Cache read error", "Cache miss">>), evicted |-> <<>>, resident |-> in_memory, raised |-> except_Exception(~read_ok)]

\* get that asks the store first and falls back on the memory tier.
Get_StoreFirst(framework, path, source_type, read_ok) ==
  \E cache_key \in {_get_cache_key(framework, path, source_type)} :
  LET in_memory == InMemory(memory_cache, cache_key)
      mentry == MemoryEntry(memory_cache, cache_key)
      entry_data == cache_get(cache, cache_key, now)
      dentry == FromDict(entry_data[1])
      m == _add_to_memory_cache(memory_cache, _framework_keys, cache_key, dentry)
      args == <<framework, path, source_type>>
  IN  /\ now' = now
      /\ cache' = cache
      /\ IF read_ok /\ entry_data # None /\ ~_is_expired(dentry, now)
         THEN /\ memory_cache' = m.mc
              /\ _framework_keys' = m.fk
              /\ last' = [op |-> "get", args |-> args, ret |-> Some(dentry.content), log |-> <<"Cache hit (disk)">>, evicted |-> m.evicted, resident |-> in_memory, raised |-> FALSE]
         ELSE IF in_memory /\ ~_is_expired(mentry, now)
         THEN /\ memory_cache' = MemoryMoveToEnd(memory_cache, cache_key)
              /\ _framework_keys' = _framework_keys
              /\ last' = [op |-> "get", args |-> args, ret |-> Some(mentry.content), log |-> <<"Cache hit (memory)">>, evicted |-> <<>>, resident |-> in_memory, raised |-> FALSE]
         ELSE /\ memory_cache' = IF in_memory THEN MemoryDel(memory_cache, cache_key) ELSE memory_cache
              /\ _framework_keys' = IF in_memory THEN _remove_from_index(_framework_keys, cache_key, mentry.framework) ELSE _framework_keys
              /\ last' = [op |-> "get", args |-> args, ret |-> None, log |-> <<"Cache miss">>, evicted |-> <<>>, resident |-> in_memory, raised |-> FALSE]

\* get(framework, path, source_type).  read_ok: the store's read succeeds.
\* The log lists the debug and warning events of the call, and which tier's
\* entry, if any, the call found expired; resident tells whether the key was in
\* the memory tier when the call began.
Get(framework, path, source_type, read_ok) ==
  \E cache_key \in {_get_cache_key(framework, path, source_type)} :
  LET in_memory == InMemory(memory_cache, cache_key)
      mentry == MemoryEntry(memory_cache, cache_key)
      \* the memory tier and index once an expired entry has been removed
      mc1 == IF in_memory THEN MemoryDel(memory_cache, cache_key) ELSE memory_cache
      fk1 == IF in_memory THEN _remove_from_index(_framework_keys, cache_key, mentry.framework) ELSE _framework_keys
      entry_data == cache_get(cache, cache_key, now)
      dentry == FromDict(entry_data[1])
      m == _add_to_memory_cache(mc1, fk1, cache_key, dentry)
      args == <<framework, path, source_type>>
      expired_log == IF in_memory THEN <<"expired (memory)">> ELSE <<>>
  IN  /\ now' = now
      /\ IF in_memory /\ ~_is_expired(mentry, now)
         THEN /\ memory_cache' = MemoryMoveToEnd(memory_cache, cache_key)
              /\ UNCHANGED <<_framework_keys, cache>>
              /\ last' = [op |-> "get", args |-> args, ret |-> Some(mentry.content), log |-> <<"Cache hit (memory)">>, evicted |-> <<>>, resident |-> in_memory, raised |-> FALSE]
         ELSE IF read_ok /\ entry_data # None
         THEN IF ~_is_expired(dentry, now)
              THEN /\ memory_cache' = m.mc
                   /\ _framework_keys' = m.fk
                   /\ cache' = cache
                   /\ last' = [op |-> "get", args |-> args, ret |-> Some(dentry.content), log |-> expired_log \o <<"Cache hit (disk)">>, evicted |-> m.evicted, resident |-> in_memory, raised |-> FALSE]
              ELSE /\ memory_cache' = mc1
                   /\ _framework_keys' = fk1
                   /\ cache' = cache_delitem(cache, cache_key)
                   /\ last' = [op |-> "get", args |-> args, ret |-> None, log |-> expired_log \o <<"expired (disk)", "Cache miss">>, evicted |-> <<>>, resident |-> in_memory, raised |-> FALSE]
         ELSE /\ memory_cache' = mc1
              /\ _framework_keys' = fk1
              /\ cache' = cache
              /\ last' = [op |-> "get", args |-> args, ret |-> None, log |-> expired_log \o (IF read_ok THEN <<"Cache miss">> ELSE <<"Cache read error", "Cache miss">>), evicted |-> <<>>, resident |-> in_memory, raised |-> except_Exception(~read_ok)]

\* set that keeps the cached_at of the entry it overwrites.
Set_KeepsFirstStamp(framework, content, path, source_type, version, branch, write_ok, store_delay) ==
  \E ttl \in {TtlTable[version, branch]}, cache_key \in {_get_cache_key(framework, path, source_type)} :
    LET cached_at == IF InMemory(memory_cache, cache_key) THEN MemoryEntry(memory_cache, cache_key).cached_at ELSE now
        entry == CacheEntry(content, cached_at, ttl, version, framework, source_type)
        m == _add_to_memory_cache(memory_cache, _framework_keys, cache_key, entry)
    IN  /\ memory_cache' = m.mc
        /\ _framework_keys' = m.fk
        /\ now + store_delay <= MaxTicks * TickStep
        /\ cache' = IF write_ok THEN cache_set(cache, cache_key, EntryDict(entry), ttl, now + store_delay) ELSE cache
        /\ now' = now + store_delay
        /\ last' = [op |-> "set", args |-> <<framework, path, source_type>>, ret |-> None, log |-> IF write_ok THEN <<"Content cached">> ELSE <<"Cache write error">>, evicted |-> m.evicted, resident |-> InMemory(memory_cache, cache_key), raised |-> FALSE]

\* set that installs the entry in the memory tier only once the store has
\* taken it.
Set_AfterStoreWrite(framework, content, path, source_type, version, branch, write_ok, store_delay) ==
  \E ttl \in {TtlTable[version, branch]}, cache_key \in {_get_cache_key(framework, path, source_type)} :
    LET entry == CacheEntry(content, now, ttl, version, framework, source_type)
        m == IF write_ok
             THEN _add_to_memory_cache(memory_cache, _framework_keys, cache_key, entry)
             ELSE [mc |-> memory_cache, fk |-> _framework_keys, evicted |-> <<>>]
    IN  /\ memory_cache' = m.mc
        /\ _framework_keys' = m.fk
        /\ now + store_delay <= MaxTicks * TickStep
        /\ cache' = IF write_ok THEN cache_set(cache, cache_key, EntryDict(entry), ttl, now + store_delay) ELSE cache
        /\ now' = now + store_delay
        /\ last' = [op |-> "set", args |-> <<framework, path, source_type>>, ret |-> None, log |-> IF write_ok THEN <<"Content cached">> ELSE <<"Cache write error">>, evicted |-> m.evicted, resident |-> InMemory(memory_cache, cache_key), raised |-> FALSE]

\* set(framework, content, path, source_type, version, branch); ttl is
\* set whose eviction also deletes the evicted keys' rows from the store.
Set_EvictsFromStore(framework, content, path, source_type, version, branch, write_ok, store_delay) ==
  \E ttl \in {TtlTable[version, branch]}, cache_key \in {_get_cache_key(framework, path, source_type)} :
    LET entry == CacheEntry(content, now, ttl, version, framework, source_type)
        m == _add_to_memory_cache(memory_cache, _framework_keys, cache_key, entry)
        kept == [k \in (DOMAIN cache) \ {m.evicted[i] : i \in DOMAIN m.evicted} |-> cache[k]]
    IN  /\ memory_cache' = m.mc
        /\ _framework_keys' = m.fk
        /\ now + store_delay <= MaxTicks * TickStep
        /\ cache' = IF write_ok THEN cache_set(kept, cache_key, EntryDict(entry), ttl, now + store_delay) ELSE kept
        /\ now' = now + store_delay
        /\ last' = [op |-> "set", args |-> <<framework, path, source_type>>, ret |-> None, log |-> IF write_ok THEN <<"Content cached">> ELSE <<"Cache write error">>, evicted |-> m.evicted, resident |-> InMemory(memory_cache, cache_key), raised |-> except_Exception(~write_ok)]

\* self._determine_ttl(framework, version, branch), read from its table.
\* write_ok: the store's write succeeds.  store_delay: the seconds that pass
\* between the reading of time.time() for cached_at and the store's own
\* reading of the clock, from which it computes the row's expire time.
Set(framework, content, path, source_type, version, branch, write_ok, store_delay) ==
  \E ttl \in {TtlTable[version, branch]}, cache_key \in {_get_cache_key(framework, path, source_type)} :
    LET entry == CacheEntry(content, now, ttl, version, framework, source_type)
        m == _add_to_memory_cache(memory_cache, _framework_keys, cache_key, entry)
    IN  /\ memory_cache' = m.mc
        /\ _framework_keys' = m.fk
        /\ now + store_delay <= MaxTicks * TickStep
        /\ cache' = IF write_ok THEN cache_set(cache, cache_key, EntryDict(entry), ttl, now + store_delay) ELSE cache
        /\ now' = now + store_delay
        /\ last' = [op |-> "set", args |-> <<framework, path, source_type>>, ret |-> None, log |-> IF write_ok THEN <<"Content cached">> ELSE <<"Cache write error">>, evicted |-> m.evicted, resident |-> InMemory(memory_cache, cache_key), raised |-> except_Exception(~write_ok)]

\* invalidate that forgets the store.
Invalidate_MemoryOnly(framework, path, source_type, delete_ok) ==
  \E cache_key \in {_get_cache_key(framework, path, source_type)} :
  LET in_memory == InMemory(memory_cache, cache_key)
  IN  /\ memory_cache' = IF in_memory THEN MemoryDel(memory_cache, cache_key) ELSE memory_cache
      /\ _framework_keys' = IF in_memory THEN _remove_from_index(_framework_keys, cache_key, framework) ELSE _framework_keys
      /\ cache' = cache
      /\ now' = now
      /\ last' = [op |-> "invalidate", args |-> <<framework, path, source_type>>, ret |-> None, log |-> <<>>, evicted |-> <<>>, resident |-> in_memory, raised |-> FALSE]

\* invalidate(framework, path, source_type).  delete_ok: the store's
\* membership test and delete succeed.
Invalidate(framework, path, source_type, delete_ok) ==
  \E cache_key \in {_get_cache_key(framework, path, source_type)} :
  LET in_memory == InMemory(memory_cache, cache_key)
      on_disk == delete_ok /\ cache_contains(cache, cache_key, now)
  IN  /\ memory_cache' = IF in_memory THEN MemoryDel(memory_cache, cache_key) ELSE memory_cache
      /\ _framework_keys' = IF in_memory THEN _remove_from_index(_framework_keys, cache_key, framework) ELSE _framework_keys
      /\ cache' = IF on_disk THEN cache_delitem(cache, cache_key) ELSE cache
      /\ now' = now
      /\ last' = [op |-> "invalidate", args |-> <<framework, path, source_type>>, ret |-> None, log |-> IF on_disk THEN <<"Cache invalidated">> ELSE IF delete_ok THEN <<>> ELSE <<"Cache invalidation error">>, evicted |-> <<>>, resident |-> in_memory, raised |-> except_Exception(~delete_ok)]

\* clear_framework that counts every key it removes once, in whichever tiers
\* the key was.
ClearFramework_CountsKeysOnce(framework, scan_ok, bad_keys) ==
  LET indexed == framework \in DOMAIN _framework_keys
      keys_to_remove == IF indexed THEN _framework_keys[framework] ELSE {}
      memory_keys == {k \in keys_to_remove : InMemory(memory_cache, k)}
      disk_keys == IF scan_ok
                   THEN {k \in cache_iterkeys(cache) \ bad_keys :
                           LET entry_data == cache_get(cache, k, now)
                           IN  entry_data # None /\ entry_data[1].framework = framework}
                   ELSE {}
      cleared_count == Cardinality(memory_keys \cup disk_keys)
  IN  /\ memory_cache' = SelectSeq(memory_cache, LAMBDA r : r.key \notin keys_to_remove)
      /\ _framework_keys' = [f \in (DOMAIN _framework_keys) \ {framework} |-> _framework_keys[f]]
      /\ cache' = [k \in (DOMAIN cache) \ disk_keys |-> cache[k]]
      /\ now' = now
      /\ last' = [op |-> "clear_framework", args |-> <<framework>>, ret |-> Some(cleared_count), log |-> <<"Framework cache cleared">>, evicted |-> <<>>, resident |-> FALSE, raised |-> FALSE]

\* clear_framework that clears the store through the index too, instead of
\* scanning it: rows whose key is not resident are left behind.
ClearFramework_IndexOnly(framework, scan_ok, bad_keys) ==
  LET indexed == framework \in DOMAIN _framework_keys
      keys_to_remove == IF indexed THEN _framework_keys[framework] ELSE {}
      memory_cleared == Cardinality({k \in keys_to_remove : InMemory(memory_cache, k)})
      disk_keys == {k \in keys_to_remove \ bad_keys : cache_get(cache, k, now) # None}
      cleared_count == memory_cleared + Cardinality(disk_keys)
  IN  /\ memory_cache' = SelectSeq(memory_cache, LAMBDA r : r.key \notin keys_to_remove)
      /\ _framework_keys' = [f \in (DOMAIN _framework_keys) \ {framework} |-> _framework_keys[f]]
      /\ cache' = [k \in (DOMAIN cache) \ disk_keys |-> cache[k]]
      /\ now' = now
      /\ last' = [op |-> "clear_framework", args |-> <<framework>>, ret |-> Some(cleared_count), log |-> <<"Framework cache cleared">>, evicted |-> <<>>, resident |-> FALSE, raised |-> FALSE]

\* clear_framework(framework).  scan_ok: iterating the store's keys succeeds.
\* bad_keys: the keys whose read or delete fails during the scan; the inner
\* handler skips them.
ClearFramework(framework, scan_ok, bad_keys) ==
  LET indexed == framework \in DOMAIN _framework_keys
      keys_to_remove == IF indexed THEN _framework_keys[framework] ELSE {}
      memory_cleared == Cardinality({k \in keys_to_remove : InMemory(memory_cache, k)})
      disk_keys == IF scan_ok
                   THEN {k \in cache_iterkeys(cache) \ bad_keys :
                           LET entry_data == cache_get(cache, k, now)
                           IN  entry_data # None /\ entry_data[1].framework = framework}
                   ELSE {}
      cleared_count == memory_cleared + Cardinality(disk_keys)
  IN  /\ memory_cache' = SelectSeq(memory_cache, LAMBDA r : r.key \notin keys_to_remove)
      /\ _framework_keys' = [f \in (DOMAIN _framework_keys) \ {framework} |-> _framework_keys[f]]
      /\ cache' = [k \in (DOMAIN cache) \ disk_keys |-> cache[k]]
      /\ now' = now
      /\ last' = [op |-> "clear_framework", args |-> <<framework>>, ret |-> Some(cleared_count), log |-> IF scan_ok THEN <<"Framework cache cleared">> ELSE <<"Cache clear error", "Framework cache cleared">>, evicted |-> <<>>, resident |-> FALSE, raised |-> except_Exception(~scan_ok \/ bad_keys # {})]

\* clear_all that leaves the namespace index as it is.
ClearAll_KeepsIndex(len_ok, clear_ok) ==
  LET memory_count == Len(memory_cache)
      disk_count == IF len_ok THEN cache_len(cache) ELSE 0
      cleared == len_ok /\ clear_ok
  IN  /\ memory_cache' = <<>>
      /\ _framework_keys' = _framework_keys
      /\ cache' = IF cleared THEN EmptyStore ELSE cache
      /\ now' = now
      /\ last' = [op |-> "clear_all", args |-> <<>>, ret |-> Some(memory_count + disk_count), log |-> <<"All cache cleared">>, evicted |-> <<>>, resident |-> FALSE, raised |-> FALSE]

\* clear_all().  len_ok: the store's size query succeeds.  clear_ok: the
\* store's clear succeeds; it is only called once the size is known.
ClearAll(len_ok, clear_ok) ==
  LET memory_count == Len(memory_cache)
      disk_count == IF len_ok THEN cache_len(cache) ELSE 0
      total_count == memory_count + disk_count
      cleared == len_ok /\ clear_ok
  IN  /\ memory_cache' = <<>>
      /\ _framework_keys' = EmptyDict
      /\ cache' = IF cleared THEN EmptyStore ELSE cache
      /\ now' = now
      /\ last' = [op |-> "clear_all", args |-> <<>>, ret |-> Some(total_count), log |-> IF cleared THEN <<"All cache cleared">> ELSE <<"Disk cache clear error", "All cache cleared">>, evicted |-> <<>>, resident |-> FALSE, raised |-> except_Exception(~cleared)]

\* The rows of the store a scan for `framework` finds: those the store serves,
\* reads without failure, and whose stored framework matches.
ScanMatches(framework, scan_ok, bad_keys) ==
  IF scan_ok
  THEN {k \in cache_iterkeys(cache) \ bad_keys :
          LET entry_data == cache_get(cache, k, now)
          IN  entry_data # None /\ entry_data[1].framework = framework}
  ELSE {}

\* The indexed keys of `framework` that are in the memory tier.
IndexedResident(framework) ==
  IF framework \in DOMAIN _framework_keys
  THEN {k \in _framework_keys[framework] : InMemory(memory_cache, k)}
  ELSE {}

RECURSIVE SumOver(_, _)
\* The running total `total_size += ...` over a set of keys; size maps a key to
\* its term.
SumOver(size, S) ==
  IF S = {} THEN 0
  ELSE LET k == CHOOSE x \in S : TRUE
       IN  size[k] + SumOver(size, S \ {k})

\* str(self.cache_dir), for the default directory.
cache_dir == "~/.cache/augments-mcp-server"

\* round(len(self.memory_cache) / MAX_MEMORY_CACHE_ENTRIES * 100, 1), in tenths
\* of a percent.
memory_utilization_pct(entries) ==
  (2 * 1000 * entries + MAX_MEMORY_CACHE_ENTRIES) \div (2 * MAX_MEMORY_CACHE_ENTRIES)

\* get_stats().  stat_ok: the store's size and volume queries succeed.
\* volume: what the store reports as its volume.
GetStats(stat_ok, volume) ==
  LET disk_size == IF stat_ok THEN cache_len(cache) ELSE 0
      disk_volume == IF stat_ok THEN volume ELSE 0
      stats == [memory_entries |-> Len(memory_cache),
                memory_max_entries |-> MAX_MEMORY_CACHE_ENTRIES,
                memory_utilization_pct |-> memory_utilization_pct(Len(memory_cache)),
                indexed_frameworks |-> Cardinality(DOMAIN _framework_keys),
                disk_entries |-> disk_size,
                disk_volume_bytes |-> disk_volume,
                cache_directory |-> cache_dir,
                ttl_strategies |-> cache_ttl]
  IN  /\ UNCHANGED <<memory_cache, _framework_keys, cache, now>>
      /\ last' = [op |-> "get_stats", args |-> <<>>, ret |-> Some(stats), log |-> <<>>, evicted |-> <<>>, resident |-> FALSE, raised |-> except_Exception(~stat_ok)]

\* get_framework_cache_info that reads the memory tier the way get does: every
\* entry it counts becomes the most recently used one.
GetFrameworkCacheInfo_Touching(framework, scan_ok, bad_keys) ==
  LET memory_keys == IndexedResident(framework)
      counted == SelectSeq(memory_cache, LAMBDA r : r.key \in memory_keys)
      others == SelectSeq(memory_cache, LAMBDA r : r.key \notin memory_keys)
  IN  /\ memory_cache' = others \o counted
      /\ UNCHANGED <<_framework_keys, cache, now>>
      /\ last' = [op |-> "get_framework_cache_info", args |-> <<framework>>, ret |-> Some([framework |-> framework, memory_entries |-> Cardinality(memory_keys)]), log |-> <<>>, evicted |-> <<>>, resident |-> FALSE, raised |-> FALSE]

\* get_framework_cache_info(framework).  scan_ok, bad_keys: as in clear_framework.
GetFrameworkCacheInfo(framework, scan_ok, bad_keys) ==
  LET memory_keys == IndexedResident(framework)
      disk_keys == ScanMatches(framework, scan_ok, bad_keys)
      memory_size == [k \in memory_keys |-> Len(MemoryEntry(memory_cache, k).content)]
      disk_size == [k \in disk_keys |-> Len(cache[k].value.content)]
      info == [framework |-> framework,
               memory_entries |-> Cardinality(memory_keys),
               disk_entries |-> Cardinality(disk_keys),
               total_size_bytes |-> SumOver(memory_size, memory_keys) + SumOver(disk_size, disk_keys),
               cache_directory |-> cache_dir]
  IN  /\ UNCHANGED <<memory_cache, _framework_keys, cache, now>>
      /\ last' = [op |-> "get_framework_cache_info", args |-> <<framework>>, ret |-> Some(info), log |-> IF scan_ok THEN <<>> ELSE <<"Error counting disk entries">>, evicted |-> <<>>, resident |-> FALSE, raised |-> except_Exception(~scan_ok \/ bad_keys # {})]

\* list_keys(framework): the "framework:source_type" names, as a set (the order
\* of the returned list is that of a Python set).
ListKeys(framework, scan_ok, bad_keys) ==
  LET memory_keys == IndexedResident(framework)
      disk_keys == ScanMatches(framework, scan_ok, bad_keys)
      framework_keys_set == {framework \o ":" \o MemoryEntry(memory_cache, k).source_type : k \in memory_keys}
                              \cup {framework \o ":" \o cache[k].value.source_type : k \in disk_keys}
  IN  /\ UNCHANGED <<memory_cache, _framework_keys, cache, now>>
      /\ last' = [op |-> "list_keys", args |-> <<framework>>, ret |-> Some(framework_keys_set), log |-> IF scan_ok THEN <<>> ELSE <<"Error listing cache keys">>, evicted |-> <<>>, resident |-> FALSE, raised |-> except_Exception(~scan_ok \/ bad_keys # {})]

\* Time passes between two operations.
Tick ==
  /\ now + TickStep <= MaxTicks * TickStep
  /\ now' = now + TickStep
  /\ last' = [op |-> "tick", args |-> <<>>, ret |-> None, log |-> <<>>, evicted |-> <<>>, resident |-> FALSE, raised |-> FALSE]
  /\ UNCHANGED <<memory_cache, _framework_keys, cache>>

\* ----------------------------------------------------------------- history

\* The history variables record what the collaborator did, not what the cache
\* holds: they are written from the operation and its arguments alone.

\* The key becomes the most recently accessed one.
Touch(r, key) == Append(SelectSeq(r, LAMBDA k : k # key), key)

\* Only the keys resident in the memory tier mc are ranked.
Resident(r, mc) == SelectSeq(r, LAMBDA k : InMemory(mc, k))

Drop(f, S) == [t \in (DOMAIN f) \ S |-> f[t]]

NoRun == [ok |-> FALSE, keys |-> <<>>]

FreshRun == [ok |-> TRUE, keys |-> <<>>]

\* A run of sets of distinct keys that started on an empty memory tier.
RunAfterSet(key) ==
  IF set_run.ok /\ Len(set_run.keys) <= MAX_MEMORY_CACHE_ENTRIES /\ \A i \in DOMAIN set_run.keys : set_run.keys[i] # key
  THEN [ok |-> TRUE, keys |-> Append(set_run.keys, key)]
  ELSE NoRun

\* Any other operation ends the run; an empty memory tier starts a new one.
RunAfterOther == IF memory_cache' = <<>> THEN FreshRun ELSE NoRun

InitHistory ==
  /\ latest = [t \in {} |-> {}]
  /\ recency = <<>>
  /\ set_run = FreshRun
  /\ peer = [pid |-> 2, memory_cache |-> <<>>, _framework_keys |-> EmptyDict, recency |-> <<>>]

Init == __init__ /\ InitHistory

TrackGet(t, key) ==
  /\ latest' = latest
  /\ recency' = Resident(IF last'.ret # None THEN Touch(recency, key) ELSE recency, memory_cache')
  /\ set_run' = RunAfterOther
  /\ peer' = peer

TrackSet(t, key, content, ttl) ==
  /\ latest' = [u \in (DOMAIN latest) \cup {t} |-> IF u = t THEN [content |-> content, cached_at |-> now, ttl |-> ttl] ELSE latest[u]]
  /\ recency' = Resident(Touch(recency, key), memory_cache')
  /\ set_run' = RunAfterSet(key)
  /\ peer' = peer

TrackInvalidate(t) ==
  /\ latest' = Drop(latest, {t})
  /\ recency' = Resident(recency, memory_cache')
  /\ set_run' = RunAfterOther
  /\ peer' = peer

TrackClearFramework(framework) ==
  /\ latest' = Drop(latest, {t \in DOMAIN latest : t[1] = framework})
  /\ recency' = Resident(recency, memory_cache')
  /\ set_run' = RunAfterOther
  /\ peer' = peer

TrackClearAll ==
  /\ latest' = Drop(latest, DOMAIN latest)
  /\ recency' = <<>>
  /\ set_run' = RunAfterOther
  /\ peer' = peer

\* ----------------------------------------------------------- specifications

\* The key a triple is cached under.
KeyOf(t) == _get_cache_key(t[1], t[2], t[3])

DoGet(T) == \E t \in T : \E key \in {KeyOf(t)} : Get(t[1], t[2], t[3], TRUE) /\ TrackGet(t, key)

DoSet(T) ==
  \E t \in T, p \in Payloads :
    \E ttl \in {TtlTable[p[2], p[3]]}, key \in {KeyOf(t)} :
      Set(t[1], p[1], t[2], t[3], p[2], p[3], TRUE, 0) /\ TrackSet(t, key, p[1], ttl)

DoInvalidate(T) == \E t \in T : Invalidate(t[1], t[2], t[3], TRUE) /\ TrackInvalidate(t)

DoClearFramework(T) == \E framework \in {t[1] : t \in T} : ClearFramework(framework, TRUE, {}) /\ TrackClearFramework(framework)

DoClearAll == ClearAll(TRUE, TRUE) /\ TrackClearAll

DoTick == Tick /\ UNCHANGED <<latest, recency, set_run, peer>>

\* One process, a healthy store, fields without the key delimiter.
Next ==
  \/ DoGet(Triples)
  \/ DoSet(Triples)
  \/ DoInvalidate(Triples)
  \/ DoClearFramework(Triples)
  \/ DoClearAll
  \/ DoTick

Spec == Init /\ [][Next]_vars

\* The same, for fields that contain the key delimiter.
NextDelim ==
  \/ DoGet(DelimTriples)
  \/ DoSet(DelimTriples)
  \/ DoInvalidate(DelimTriples)
  \/ DoClearFramework(DelimTriples)
  \/ DoClearAll
  \/ DoTick

SpecDelim == Init /\ [][NextDelim]_vars

\* ------------------------------------------- specifications with a failing store

\* What the store reports as its volume.
Volumes == {4096}

\* The keys on which a scan of the store that gets under way can fail, given
\* the outcomes Oks a store operation can have: none, or any one row.
BadKeySets(Oks) == IF FALSE \in Oks THEN {{}} \cup {{k} : k \in DOMAIN cache} ELSE {{}}

\* The reporting operations are not accesses: the record of recency stands.
TrackReport ==
  /\ UNCHANGED <<latest, recency>>
  /\ set_run' = RunAfterOther
  /\ peer' = peer

GetIn(T, Oks) ==
  \E t \in T, read_ok \in Oks :
    \E key \in {KeyOf(t)} : Get(t[1], t[2], t[3], read_ok) /\ TrackGet(t, key)

SetIn(T, Oks, Delays) ==
  \E t \in T, p \in Payloads, write_ok \in Oks, store_delay \in Delays :
    \E ttl \in {TtlTable[p[2], p[3]]}, key \in {KeyOf(t)} :
      Set(t[1], p[1], t[2], t[3], p[2], p[3], write_ok, store_delay) /\ TrackSet(t, key, p[1], ttl)

InvalidateIn(T, Oks) ==
  \E t \in T, delete_ok \in Oks : Invalidate(t[1], t[2], t[3], delete_ok) /\ TrackInvalidate(t)

ClearFrameworkIn(T, Oks) ==
  \E framework \in {t[1] : t \in T}, scan_ok \in Oks :
    \E bad_keys \in (IF scan_ok THEN BadKeySets(Oks) ELSE {{}}) :
    ClearFramework(framework, scan_ok, bad_keys) /\ TrackClearFramework(framework)

ClearAllIn(Oks) == \E len_ok \in Oks, clear_ok \in Oks : ClearAll(len_ok, clear_ok) /\ TrackClearAll

GetStatsIn(Oks) == \E stat_ok \in Oks, volume \in Volumes : GetStats(stat_ok, volume) /\ TrackReport

GetFrameworkCacheInfoIn(T, Oks) ==
  \E framework \in {t[1] : t \in T}, scan_ok \in Oks :
    \E bad_keys \in (IF scan_ok THEN BadKeySets(Oks) ELSE {{}}) :
    GetFrameworkCacheInfo(framework, scan_ok, bad_keys) /\ TrackReport

ListKeysIn(T, Oks) ==
  \E framework \in {t[1] : t \in T}, scan_ok \in Oks :
    \E bad_keys \in (IF scan_ok THEN BadKeySets(Oks) ELSE {{}}) :
    ListKeys(framework, scan_ok, bad_keys) /\ TrackReport

\* The triples asked for while the store fails: one per namespace.
FailTriples == {<<"react", "", "docs">>, <<"vue", "", "docs">>}

\* One process and a store any of whose operations can fail, the reporting
\* operations included.
NextFail ==
  \/ GetIn(FailTriples, BOOLEAN)
  \/ SetIn(FailTriples, BOOLEAN, {0})
  \/ InvalidateIn(FailTriples, BOOLEAN)
  \/ ClearFrameworkIn(FailTriples, BOOLEAN)
  \/ ClearAllIn(BOOLEAN)
  \/ GetStatsIn(BOOLEAN)
  \/ GetFrameworkCacheInfoIn(FailTriples, BOOLEAN)
  \/ ListKeysIn(FailTriples, BOOLEAN)
  \/ DoTick

SpecFail == Init /\ [][NextFail]_vars

\* ------------------------------------------ specification with a slow store write

\* The seconds that can pass between the reading of the clock for cached_at and
\* the store's own reading of it: none, or one step of the clock.
StoreDelays == {0, TickStep}

\* One process and a healthy store that may take the time of its write later
\* than the entry's cached_at, so that a row can outlive its entry.
NextSkew ==
  \/ GetIn(Triples, {TRUE})
  \/ SetIn(Triples, {TRUE}, StoreDelays)
  \/ InvalidateIn(Triples, {TRUE})
  \/ ClearFrameworkIn(Triples, {TRUE})
  \/ ClearAllIn({TRUE})
  \/ DoTick

SpecSkew == Init /\ [][NextSkew]_vars

\* ------------------------------------------- specifications of the pure functions

\* The versions and branches the TTL policy is asked about: every rule alone,
\* rules in competition, upper case, near misses and the empty string.
TtlFrameworks == {"react", "svelte"}

TtlVersions ==
  {"latest", "LATEST", "latest-1", "stable", "Stable-Beta", "18.2.0-beta.1", "2.0.0-rc.1",
   "5.0.0-dev", "DEV", "1.0.0-alpha", "1.0-alpha-beta", "4.17.21", ""}

TtlBranches == {"main", "MASTER", "dev", "develop", "development", "release", "feature/dev", ""}

\* The state before a direct call of a pure method: the cache as constructed,
\* and the arguments of the call.
Input(args) ==
  /\ memory_cache = <<>>
  /\ _framework_keys = EmptyDict
  /\ cache = EmptyStore
  /\ now = 0
  /\ last = [op |-> "input", args |-> args, ret |-> None, log |-> <<>>, evicted |-> <<>>, resident |-> FALSE, raised |-> FALSE]
  /\ InitHistory

\* The call returns; the cache is not touched.
Return(op, ret) ==
  /\ last' = [op |-> op, args |-> last.args, ret |-> Some(ret), log |-> <<>>, evicted |-> <<>>, resident |-> FALSE, raised |-> FALSE]
  /\ UNCHANGED <<memory_cache, _framework_keys, cache, now, latest, recency, set_run, peer>>

InitTtl == \E framework \in TtlFrameworks, version \in TtlVersions, branch \in TtlBranches : Input(<<framework, version, branch>>)

DetermineTtl ==
  /\ last.op = "input"
  /\ Return("_determine_ttl", _determine_ttl(last.args[1], last.args[2], last.args[3]))

SpecTtl == InitTtl /\ [][DetermineTtl]_vars

\* The triples whose keys are compared: plain ones, and ones whose fields
\* contain the ':' that joins the fields or are empty.
KeyTriples ==
  {<<"react", "", "docs">>, <<"react", "guide", "docs">>, <<"react", "", "guide:docs">>,
   <<"react", "", "examples">>, <<"vue", "", "docs">>, <<"", "react", "docs">>,
   <<"a", "b:c", "docs">>, <<"a:b", "c", "docs">>, <<"a", "b", "c:docs">>, <<"a", "", "docs">>}

InitKey == \E t1 \in KeyTriples, t2 \in KeyTriples : Input(<<t1, t2>>)

\* The keys of the two triples are derived, one call each.
DeriveKeys ==
  /\ last.op = "input"
  /\ Return("_get_cache_key", <<_get_cache_key(last.args[1][1], last.args[1][2], last.args[1][3]),
                                _get_cache_key(last.args[2][1], last.args[2][2], last.args[2][3])>>)

SpecKey == InitKey /\ [][DeriveKeys]_vars

\* ------------------------------------------------------------------ claims

\* The keys the index records under namespace N.
IndexedKeys(fk, N) == IF N \in DOMAIN fk THEN fk[N] ELSE {}

\* The keys resident in the memory tier whose entry has namespace N.
ResidentKeysOf(mc, N) == {mc[i].key : i \in {j \in DOMAIN mc : mc[j].entry.framework = N}}

\* The namespaces the memory tier or the index mention.
KnownNamespaces == (DOMAIN _framework_keys) \cup {memory_cache[i].entry.framework : i \in DOMAIN memory_cache}

\* C1: in every reachable state, whatever sets, gets (promotions included),
\* invalidates and clears came before, the memory tier holds at most
\* MAX_MEMORY_CACHE_ENTRIES entries.
C1_CapacityBound == Len(memory_cache) <= MAX_MEMORY_CACHE_ENTRIES

\* An insertion has just evicted an entry of a full tier, and the tier is full again.
C1_Witness ==
  /\ last.op \in {"set", "get"}
  /\ last.evicted # <<>>
  /\ Len(memory_cache) = MAX_MEMORY_CACHE_ENTRIES

\* C2: after every public operation, the keys the index records under a
\* namespace N are exactly the keys resident in the memory tier whose entry has
\* namespace N, for every N.
C2_IndexConsistent ==
  \A N \in KnownNamespaces : IndexedKeys(_framework_keys, N) = ResidentKeysOf(memory_cache, N)

\* The event e is in the log of the last operation.
Logged(e) == \E i \in DOMAIN last.log : last.log[i] = e

\* The step is a get, or a set, of triple t.
GetStep(t) == last'.op = "get" /\ last'.args = t

SetStep(t) == last'.op = "set" /\ last'.args = t

\* The keys that leave the memory tier in the step.
Departed == MemoryKeys(memory_cache) \ MemoryKeys(memory_cache')

\* C3: while the entry of the most recent set of a triple is unexpired
\* (now - cached_at <= ttl), the triple has not been invalidated or cleared
\* since, and its key is in the memory tier, get of the triple returns the
\* content of that set.
C3_GetReturnsLatestSet ==
  [][\A t \in DOMAIN latest :
       (/\ GetStep(t)
        /\ now - latest[t].cached_at <= latest[t].ttl
        /\ InMemory(memory_cache, KeyOf(t)))
       => last'.ret = Some(latest[t].content)]_vars

\* A get has returned the content of the latest set from the memory tier at the
\* very end of the entry's life (its age equals its ttl).
C3_Witness ==
  /\ last.op = "get"
  /\ Logged("Cache hit (memory)")
  /\ last.args \in DOMAIN latest
  /\ last.ret = Some(latest[last.args].content)
  /\ now - latest[last.args].cached_at = latest[last.args].ttl

\* C4: a set, a get that hits the memory tier and a promotion each make their
\* key the most recently used one, and a key evicted by such a step is the
\* resident key whose most recent access is the oldest.
C4_EvictsLeastRecentlyAccessed ==
  [][(last'.op = "set" \/ (last'.op = "get" /\ last'.ret # None))
     => /\ memory_cache' # <<>>
        /\ memory_cache'[Len(memory_cache')].key = KeyOf(last'.args)
        /\ \A k \in Departed : recency # <<>> /\ k = Head(recency)]_vars

\* A set has evicted a key that was set later than a key that stays resident:
\* the older key had been read in between.
C4_Witness ==
  /\ last.op = "set"
  /\ last.evicted # <<>>
  /\ \E e \in DOMAIN latest, r \in DOMAIN latest :
       /\ KeyOf(e) = last.evicted[1]
       /\ KeyOf(r) # KeyOf(last.args)
       /\ InMemory(memory_cache, KeyOf(r))
       /\ latest[r].cached_at < latest[e].cached_at

\* C5: after MAX_MEMORY_CACHE_ENTRIES + 1 sets of distinct keys on an empty
\* memory tier, with no other operation in between, exactly
\* MAX_MEMORY_CACHE_ENTRIES entries are resident and the one key missing is the
\* first one set.
C5_InsertOnlyEvictsFirst ==
  (set_run.ok /\ Len(set_run.keys) = MAX_MEMORY_CACHE_ENTRIES + 1)
  => /\ Len(memory_cache) = MAX_MEMORY_CACHE_ENTRIES
     /\ MemoryKeys(memory_cache) = {set_run.keys[i] : i \in 2..(MAX_MEMORY_CACHE_ENTRIES + 1)}
     /\ set_run.keys[1] \notin MemoryKeys(memory_cache)

\* Such a run of sets has just ended.
C5_Witness ==
  /\ set_run.ok
  /\ Len(set_run.keys) = MAX_MEMORY_CACHE_ENTRIES + 1
  /\ last.op = "set"

\* C6: a set or a promotion evicts exactly one entry when its key is new and
\* the tier is at capacity, none when its key is new and the tier is below
\* capacity, and none when its key is already resident.
C6_AtMostOneEviction ==
  [][(last'.op = "set" \/ (last'.op = "get" /\ \E i \in DOMAIN last'.log : last'.log[i] = "Cache hit (disk)"))
     => LET key == KeyOf(last'.args)
            evicted == Departed \ {key}
        IN  /\ InMemory(memory_cache', key)
            /\ Cardinality(evicted) <= 1
            /\ (~InMemory(memory_cache, key) /\ Len(memory_cache) >= MAX_MEMORY_CACHE_ENTRIES) => Cardinality(evicted) = 1
            /\ (~InMemory(memory_cache, key) /\ Len(memory_cache) < MAX_MEMORY_CACHE_ENTRIES) => evicted = {}
            /\ InMemory(memory_cache, key) => evicted = {}]_vars

\* A key resident in a full tier has been set again, and nothing was evicted.
C6_Witness ==
  /\ last.op = "set"
  /\ last.resident
  /\ last.evicted = <<>>
  /\ Len(memory_cache) = MAX_MEMORY_CACHE_ENTRIES

\* C7: a get of a triple later than cached_at + ttl of its most recent set
\* returns None and leaves the key neither in the memory tier nor in the index.
C7_ExpiredIsAbsent ==
  [][\A t \in DOMAIN latest :
       (GetStep(t) /\ now - latest[t].cached_at > latest[t].ttl)
       => /\ last'.ret = None
          /\ ~InMemory(memory_cache', KeyOf(t))
          /\ \A N \in DOMAIN _framework_keys' : KeyOf(t) \notin _framework_keys'[N]]_vars

\* A get has found the resident entry of its triple expired and returned None.
C7_Witness ==
  /\ last.op = "get"
  /\ last.resident
  /\ Logged("expired (memory)")
  /\ last.ret = None
  /\ last.args \in DOMAIN latest
  /\ now - latest[last.args].cached_at > latest[last.args].ttl

\* C8: a get whose key is not in the memory tier while the store holds an
\* unexpired entry for it returns that entry's content and leaves the entry
\* resident as the most recently used one, indexed under its namespace, the
\* least recently used entry evicted if the tier was full; a get that finds an
\* unexpired entry in neither tier returns None.
C8_PromotionOnDiskHit ==
  [][\A t \in Triples :
       GetStep(t) =>
         LET key == KeyOf(t)
             in_memory == InMemory(memory_cache, key)
             on_disk == key \in DOMAIN cache
         IN  /\ (~in_memory /\ on_disk /\ now - cache[key].value.cached_at <= cache[key].value.ttl)
                => /\ last'.ret = Some(cache[key].value.content)
                   /\ memory_cache' # <<>>
                   /\ memory_cache'[Len(memory_cache')] = [key |-> key, entry |-> cache[key].value]
                   /\ key \in IndexedKeys(_framework_keys', cache[key].value.framework)
                   /\ Len(memory_cache') <= MAX_MEMORY_CACHE_ENTRIES
                   /\ Len(memory_cache) >= MAX_MEMORY_CACHE_ENTRIES => Departed = {Head(memory_cache).key}
                   /\ Len(memory_cache) < MAX_MEMORY_CACHE_ENTRIES => Departed = {}
             /\ (/\ in_memory => now - MemoryEntry(memory_cache, key).cached_at > MemoryEntry(memory_cache, key).ttl
                 /\ on_disk => now - cache[key].value.cached_at > cache[key].value.ttl)
                => last'.ret = None]_vars

\* A get has promoted an entry from the store into a full memory tier.
C8_Witness ==
  /\ last.op = "get"
  /\ ~last.resident
  /\ Logged("Cache hit (disk)")
  /\ last.evicted # <<>>
  /\ last.ret # None
  /\ InMemory(memory_cache, KeyOf(last.args))

\* The step is clear_framework(N).
ClearFrameworkStep(N) == last'.op = "clear_framework" /\ last'.args = <<N>>

\* The keys of the rows the store serves (unexpired rows) for namespace N.
StoredKeysOf(N) == {k \in DOMAIN cache : cache[k].expire_time >= now /\ cache[k].value.framework = N}

\* C9, as claimed: clear_framework(N) returns the number of cached entries of
\* namespace N it removed, an entry held in both tiers being one entry (5 for
\* five entries written to both tiers).
C9_ReturnsEntriesRemoved ==
  [][\A N \in Frameworks :
       ClearFrameworkStep(N)
       => last'.ret = Some(Cardinality(ResidentKeysOf(memory_cache, N) \cup StoredKeysOf(N)))]_vars

\* C9, amended: clear_framework(N) returns the number of memory-tier entries of
\* N it removed plus the number of store rows of N it removed, so an entry held
\* in both tiers counts twice.
C9_ReturnsRemovalsPerTier ==
  [][\A N \in Frameworks :
       ClearFrameworkStep(N)
       => /\ last'.ret = Some(Cardinality(ResidentKeysOf(memory_cache, N)) + Cardinality(StoredKeysOf(N)))
          /\ ResidentKeysOf(memory_cache, N) \cap MemoryKeys(memory_cache') = {}
          /\ StoredKeysOf(N) \cap DOMAIN cache' = {}]_vars

\* clear_framework("react") has removed two entries, each held in both tiers,
\* and returned 4.
C9_Witness ==
  /\ last.op = "clear_framework"
  /\ last.args = <<"react">>
  /\ last.ret = Some(4)
  /\ {t \in DOMAIN latest : t[1] = "react"} = {}

\* C10: clear_framework(N) leaves no entry of namespace N in the memory tier,
\* the index or the rows the store serves, and leaves every other entry, index
\* set and row as it was; from then on get of a triple of N returns None until
\* the triple is set again, and get of any other triple still returns what its
\* most recent set stored, as long as that is unexpired.
C10_ClearFrameworkOnlyItsNamespace ==
  [][/\ \A N \in Frameworks :
          ClearFrameworkStep(N)
          => /\ memory_cache' = SelectSeq(memory_cache, LAMBDA r : r.entry.framework # N)
             /\ DOMAIN _framework_keys' = (DOMAIN _framework_keys) \ {N}
             /\ \A M \in DOMAIN _framework_keys' : _framework_keys'[M] = _framework_keys[M]
             /\ DOMAIN cache' = (DOMAIN cache) \ StoredKeysOf(N)
             /\ \A k \in DOMAIN cache' : cache'[k] = cache[k]
             /\ \A t \in Triples : t[1] = N => (~InMemory(memory_cache', KeyOf(t)) /\ cache_get(cache', KeyOf(t), now') = None)
     /\ \A t \in Triples :
          GetStep(t)
          => last'.ret = IF t \in DOMAIN latest /\ now - latest[t].cached_at <= latest[t].ttl
                         THEN Some(latest[t].content)
                         ELSE None]_vars

\* clear_framework("react") has removed entries from both tiers while an entry
\* of "vue" stays in the memory tier and in the store.
C10_Witness ==
  /\ last.op = "clear_framework"
  /\ last.args = <<"react">>
  /\ last.ret # Some(0)
  /\ InMemory(memory_cache, KeyOf(<<"vue", "", "docs">>))
  /\ KeyOf(<<"vue", "", "docs">>) \in DOMAIN cache
  /\ <<"vue", "", "docs">> \in DOMAIN latest

\* The step is invalidate of triple t.
InvalidateStep(t) == last'.op = "invalidate" /\ last'.args = t

\* C11: after invalidate of a triple its key is in neither tier, every other
\* key keeps its entry, its place in the recency order, its index membership
\* and its row, and get of the triple returns None until the triple is set
\* again.
C11_InvalidateRemovesKey ==
  [][/\ \A t \in Triples :
          InvalidateStep(t)
          => LET key == KeyOf(t)
             IN  /\ ~InMemory(memory_cache', key)
                 /\ cache_get(cache', key, now') = None
                 /\ memory_cache' = MemoryDel(memory_cache, key)
                 /\ \A N \in Frameworks : IndexedKeys(_framework_keys', N) = IndexedKeys(_framework_keys, N) \ {key}
                 /\ DOMAIN cache' = (DOMAIN cache) \ (IF cache_get(cache, key, now) # None THEN {key} ELSE {})
                 /\ \A k \in DOMAIN cache' : cache'[k] = cache[k]
     /\ \A t \in Triples : (GetStep(t) /\ t \notin DOMAIN latest) => last'.ret = None]_vars

\* invalidate has removed a key from both tiers while another key stays in both.
C11_Witness ==
  /\ last.op = "invalidate"
  /\ last.resident
  /\ Logged("Cache invalidated")
  /\ memory_cache # <<>>
  /\ \E i \in DOMAIN memory_cache : memory_cache[i].key \in DOMAIN cache

\* C12: invalidate of a triple whose key is not in the memory tier and for
\* which the store serves no row returns normally
\* and leaves the memory tier and its order, the index and the store as they
\* were.
C12_InvalidateAbsentIsNoOp ==
  [][\A t \in Triples :
       (InvalidateStep(t) /\ ~InMemory(memory_cache, KeyOf(t)) /\ cache_get(cache, KeyOf(t), now) = None)
       => /\ UNCHANGED <<memory_cache, _framework_keys, cache>>
          /\ last'.ret = None
          /\ ~last'.raised]_vars

\* invalidate of a triple that is not cached has run while other entries are
\* cached, and while the store still holds the expired row of the triple.
C12_Witness ==
  /\ last.op = "invalidate"
  /\ ~last.resident
  /\ last.log = <<>>
  /\ memory_cache # <<>>
  /\ KeyOf(last.args) \in DOMAIN cache

\* The event e is in the log of the operation the step runs.
LoggedNext(e) == \E i \in DOMAIN last'.log : last'.log[i] = e

\* The step is one of the reporting operations.
ReportStep == last'.op \in {"get_stats", "get_framework_cache_info", "list_keys"}

\* C13: whichever store operation fails, the method returns normally; a get
\* whose read failed returns None; a set whose write failed, an invalidate whose
\* delete failed and a clear whose scan, size query or clear failed leave the
\* store as it was, and so do the reporting operations.
C13_StoreFailuresAreContained ==
  [][/\ ~last'.raised
     /\ LoggedNext("Cache read error") => (last'.op = "get" /\ last'.ret = None)
     /\ LoggedNext("Cache write error") => (last'.op = "set" /\ cache' = cache)
     /\ LoggedNext("Cache invalidation error") => (last'.op = "invalidate" /\ cache' = cache)
     /\ LoggedNext("Cache clear error") => (last'.op = "clear_framework" /\ cache' = cache)
     /\ LoggedNext("Disk cache clear error") => (last'.op = "clear_all" /\ cache' = cache)
     /\ ReportStep => cache' = cache]_vars

\* A get whose read of the store failed has returned None although the store
\* holds an unexpired row for its key.
C13_Witness ==
  /\ last.op = "get"
  /\ Logged("Cache read error")
  /\ last.ret = None
  /\ ~last.raised
  /\ cache_get(cache, KeyOf(last.args), now) # None

\* C14: set leaves its entry in the memory tier as the most recently used one,
\* indexed under its namespace, whether or not the store's write succeeded, and
\* a get of the same triple right after the set returns the content just set.
C14_SetAlwaysInstallsInMemory ==
  [][\A t \in FailTriples :
       /\ SetStep(t)
          => /\ memory_cache' # <<>>
             /\ memory_cache'[Len(memory_cache')].key = KeyOf(t)
             /\ memory_cache'[Len(memory_cache')].entry.content = latest'[t].content
             /\ memory_cache'[Len(memory_cache')].entry.cached_at = now
             /\ KeyOf(t) \in IndexedKeys(_framework_keys', t[1])
       /\ (last.op = "set" /\ last.args = t /\ GetStep(t))
          => last'.ret = Some(latest[t].content)]_vars

\* A set whose write to the store failed has left its entry in the memory
\* tier, and the store has no row for the key.
C14_Witness ==
  /\ last.op = "set"
  /\ Logged("Cache write error")
  /\ InMemory(memory_cache, KeyOf(last.args))
  /\ MemoryEntry(memory_cache, KeyOf(last.args)).content = latest[last.args].content
  /\ KeyOf(last.args) \notin DOMAIN cache

\* C15: when a get reaches the store and the store serves a row whose entry is
\* expired by the entry's own fields (now - cached_at > ttl), the get returns
\* None, the key is not in the memory tier afterwards, and the row is deleted.
C15_ExpiredRowIsMissAndDeleted ==
  [][\A t \in Triples :
       GetStep(t)
       => LET key == KeyOf(t)
              entry_data == cache_get(cache, key, now)
              memory_hit == InMemory(memory_cache, key) /\ now - MemoryEntry(memory_cache, key).cached_at <= MemoryEntry(memory_cache, key).ttl
          IN  (~memory_hit /\ entry_data # None /\ now - entry_data[1].cached_at > entry_data[1].ttl)
              => /\ last'.ret = None
                 /\ ~InMemory(memory_cache', key)
                 /\ key \notin DOMAIN cache'
                 /\ DOMAIN cache' = (DOMAIN cache) \ {key}]_vars

\* A get has been served an expired entry by the store, has returned None and
\* has deleted the row.
C15_Witness ==
  /\ last.op = "get"
  /\ Logged("expired (disk)")
  /\ last.ret = None
  /\ ~InMemory(memory_cache, KeyOf(last.args))
  /\ KeyOf(last.args) \notin DOMAIN cache

\* The four durations of the policy, in seconds.
Hours(n) == n * 60 * 60

\* The ordered four-rule reference of the TTL policy.
TtlReference(version, branch) ==
  LET v == lower(version)
      b == lower(branch)
  IN  CASE b \in {"dev", "develop", "development", "master", "main"} /\ (Contains("dev", v) \/ Contains("alpha", v)) -> Hours(1)
        [] OTHER ->
             CASE Contains("beta", v) \/ Contains("rc", v) -> Hours(6)
               [] OTHER ->
                    CASE Contains("stable", v) \/ v = "latest" -> Hours(24)
                      [] OTHER -> Hours(3)

\* The call of _determine_ttl with this version and branch has returned ttl.
TtlIs(version, branch, ttl) ==
  (last.args[2] = version /\ last.args[3] = branch) => last.ret = Some(ttl)

\* C16: for every version and branch _determine_ttl returns what the ordered
\* four-rule reference gives, case ignored, the first matching rule winning
\* (an alpha and beta version on main gets 1 hour), and its result is one of
\* the four positive durations 1, 6, 24 and 3 hours.
C16_TtlPolicyIsFourRuleReference ==
  last.op = "_determine_ttl"
  => /\ last.ret = Some(TtlReference(last.args[2], last.args[3]))
     /\ last.ret[1] \in {Hours(1), Hours(6), Hours(24), Hours(3)}
     /\ last.ret[1] > 0
     /\ TtlIs("18.2.0-beta.1", "main", Hours(6))
     /\ TtlIs("stable", "main", Hours(24))
     /\ TtlIs("5.0.0-dev", "develop", Hours(1))
     /\ TtlIs("4.17.21", "main", Hours(3))
     /\ TtlIs("1.0-alpha-beta", "main", Hours(1))
     /\ TtlIs("DEV", "MASTER", Hours(1))
     /\ TtlIs("5.0.0-dev", "release", Hours(3))
     /\ TtlIs("latest-1", "main", Hours(3))

\* _determine_ttl has classified a version that is both alpha and beta, on
\* main, as a development version.
C16_Witness ==
  /\ last.op = "_determine_ttl"
  /\ last.args[2] = "1.0-alpha-beta"
  /\ last.args[3] = "main"
  /\ last.ret = Some(Hours(1))

\* Neither the namespace nor the path of triple t contains the delimiter.
DelimiterFree(t) == ~Contains(":", t[1]) /\ ~Contains(":", t[2])

\* C17, as claimed: identical triples yield the same key, and distinct triples
\* never yield the same pre-hash string, whatever their fields contain.  (The
\* hash of the model has no collisions: equal keys are equal pre-hash strings.)
C17_KeyDerivationInjective ==
  last.op = "_get_cache_key"
  => (last.ret[1][1] = last.ret[1][2] <=> last.args[1] = last.args[2])

\* C17, amended: identical triples yield the same key, and two distinct triples
\* neither of which has a ':' in its namespace or its path never yield the same
\* pre-hash string.
C17_KeyDerivationInjectiveWithoutDelimiter ==
  last.op = "_get_cache_key"
  => /\ last.args[1] = last.args[2] => last.ret[1][1] = last.ret[1][2]
     /\ (DelimiterFree(last.args[1]) /\ DelimiterFree(last.args[2]) /\ last.args[1] # last.args[2])
        => last.ret[1][1] # last.ret[1][2]

\* Two triples that differ only in where "guide" stands, and whose namespace
\* and path have no ':', have been given different keys.
C17_Witness ==
  /\ last.op = "_get_cache_key"
  /\ last.args = <<(<<"react", "guide", "docs">>), (<<"react", "", "guide:docs">>)>>
  /\ last.ret[1][1] # last.ret[1][2]

\* C18: clear_all leaves the memory tier, the index and the store empty and
\* returns the number of entries the memory tier held plus the number of rows
\* the store held; from then on get of a triple returns None until the triple
\* is set again.
C18_ClearAllEmptiesBothTiers ==
  [][/\ last'.op = "clear_all"
        => /\ memory_cache' = <<>>
           /\ DOMAIN _framework_keys' = {}
           /\ DOMAIN cache' = {}
           /\ last'.ret = Some(Len(memory_cache) + Cardinality(DOMAIN cache))
     /\ \A t \in Triples :
          (GetStep(t) /\ (last.op = "clear_all" \/ t \notin DOMAIN latest)) => last'.ret = None]_vars

\* clear_all has removed a full memory tier and three rows, and returned 5.
C18_Witness ==
  /\ last.op = "clear_all"
  /\ last.ret = Some(MAX_MEMORY_CACHE_ENTRIES + 3)
  /\ memory_cache = <<>>
  /\ DOMAIN cache = {}
  /\ DOMAIN _framework_keys = {}

\* C19: get_stats, get_framework_cache_info and list_keys leave the memory tier
\* and its order, the index and the store as they were.
C19_ReportingIsReadOnly ==
  [][ReportStep => UNCHANGED <<memory_cache, _framework_keys, cache>>]_vars

\* get_framework_cache_info has counted an entry in each tier for a namespace
\* whose entry is not the most recently used one of the memory tier.
C19_Witness ==
  /\ last.op = "get_framework_cache_info"
  /\ last.ret[1].memory_entries >= 1
  /\ last.ret[1].disk_entries >= 1
  /\ Len(memory_cache) = 2
  /\ memory_cache[1].entry.framework = last.args[1]
  /\ memory_cache[2].entry.framework # last.args[1]

\* C20: every set stores, in both tiers, an entry whose cached_at is the time
\* of the write, which is not earlier than the cached_at of any entry the
\* tiers hold and of the previous set of the same triple.
C20_CachedAtNonDecreasing ==
  [][\A t \in Triples :
       SetStep(t)
       => LET key == KeyOf(t)
              stored == MemoryEntry(memory_cache', key)
          IN  /\ stored.cached_at = now
              /\ cache'[key].value.cached_at = now
              /\ t \in DOMAIN latest => stored.cached_at >= latest[t].cached_at
              /\ InMemory(memory_cache, key) => stored.cached_at >= MemoryEntry(memory_cache, key).cached_at
              /\ key \in DOMAIN cache => cache'[key].value.cached_at >= cache[key].value.cached_at
              /\ \A i \in DOMAIN memory_cache : memory_cache[i].entry.cached_at <= now
              /\ \A k \in DOMAIN cache : cache[k].value.cached_at <= now]_vars

\* A key resident since an earlier set has been set again, later: its entry
\* carries the time of the second write in both tiers.
C20_Witness ==
  /\ last.op = "set"
  /\ last.resident
  /\ now > 0
  /\ MemoryEntry(memory_cache, KeyOf(last.args)).cached_at = now
  /\ cache[KeyOf(last.args)].value.cached_at = now

\* --------------------------------------- a store whose writes can fail

\* One process whose store always reads but may refuse a write: the sets and
\* gets of the triples, one after the other within the life of every entry.
NextStale ==
  \/ GetIn(Triples, {TRUE})
  \/ SetIn(Triples, BOOLEAN, {0})

SpecStale == Init /\ [][NextStale]_vars

\* C25: a get never returns content written by a set older than the most
\* recent set of the triple: what it returns is the content of that most recent
\* set, also when the store write of that set failed and the key has left the
\* memory tier since (the older row of the store is not served or promoted).
C25_GetNeverReturnsOlderSet ==
  [][\A t \in Triples :
       (GetStep(t) /\ last'.ret # None)
       => /\ t \in DOMAIN latest
          /\ last'.ret = Some(latest[t].content)
          /\ MemoryEntry(memory_cache', KeyOf(t)).content = latest[t].content]_vars

\* C26: promotion copies the row with the cached_at and ttl of the set that
\* wrote it, so no sequence of gets, promotions and evictions extends the life
\* of an entry: a get that returns a content returns the content of the most
\* recent set of the triple, not later than that set's cached_at + ttl, and
\* the entry it leaves in the memory tier carries that set's cached_at and ttl.
C26_LifetimeNeverExtended ==
  [][\A t \in Triples :
       (GetStep(t) /\ last'.ret # None)
       => /\ t \in DOMAIN latest
          /\ last'.ret = Some(latest[t].content)
          /\ now <= latest[t].cached_at + latest[t].ttl
          /\ MemoryEntry(memory_cache', KeyOf(t)).cached_at = latest[t].cached_at
          /\ MemoryEntry(memory_cache', KeyOf(t)).ttl = latest[t].ttl]_vars

\* A get has promoted, some time after the set, an entry that had left the
\* memory tier: the resident copy carries the cached_at of the set.
C26_Witness ==
  /\ last.op = "get"
  /\ ~last.resident
  /\ Logged("Cache hit (disk)")
  /\ last.args \in DOMAIN latest
  /\ now > latest[last.args].cached_at
  /\ MemoryEntry(memory_cache, KeyOf(last.args)).cached_at = latest[last.args].cached_at
  /\ MemoryEntry(memory_cache, KeyOf(last.args)).ttl = latest[last.args].ttl

\* C27: LRU eviction touches the memory tier and the index only: the row the
\* store serves for an evicted key is left as it was, so a later get of a key
\* that has left the memory tier, while the entry of its most recent set is
\* unexpired and was written to the store, returns the content of that set and
\* makes the key resident again.
C27_EvictionLeavesStoreRow ==
  [][/\ \A i \in DOMAIN last'.evicted :
          RowLive(cache, last'.evicted[i], now)
          => /\ last'.evicted[i] \in DOMAIN cache'
             /\ cache'[last'.evicted[i]] = cache[last'.evicted[i]]
     /\ \A t \in DOMAIN latest :
          (/\ GetStep(t)
           /\ ~InMemory(memory_cache, KeyOf(t))
           /\ now - latest[t].cached_at <= latest[t].ttl)
          => /\ last'.ret = Some(latest[t].content)
             /\ InMemory(memory_cache', KeyOf(t))
             /\ cache' = cache]_vars

\* A key set earlier and since evicted from the memory tier has been read
\* back: the get has returned the content of the set from the row the
\* eviction left in the store, and the key is resident again.
C27_Witness ==
  /\ last.op = "get"
  /\ ~last.resident
  /\ last.args \in DOMAIN latest
  /\ last.ret = Some(latest[last.args].content)
  /\ InMemory(memory_cache, KeyOf(last.args))
  /\ KeyOf(last.args) \in DOMAIN cache
  /\ cache[KeyOf(last.args)].value.content = latest[last.args].content

\* ------------------------- reports over fields that contain the delimiter

\* One process and a healthy store, fields that contain the key delimiter, and
\* the two reports that count entries.
NextDelimReport ==
  \/ GetIn(DelimTriples, {TRUE})
  \/ SetIn(DelimTriples, {TRUE}, {0})
  \/ InvalidateIn(DelimTriples, {TRUE})
  \/ ClearFrameworkIn(DelimTriples, {TRUE})
  \/ ClearAllIn({TRUE})
  \/ GetStatsIn({TRUE})
  \/ GetFrameworkCacheInfoIn(DelimTriples, {TRUE})
  \/ DoTick

SpecDelimReport == Init /\ [][NextDelimReport]_vars

\* The step is get_framework_cache_info(N).
InfoStep(N) == last'.op = "get_framework_cache_info" /\ last'.args = <<N>>

\* The sum of the content lengths of the memory entries, and of the rows the
\* store serves, whose namespace is N.
MemorySizeOf(N) ==
  SumOver([k \in ResidentKeysOf(memory_cache, N) |-> Len(MemoryEntry(memory_cache, k).content)], ResidentKeysOf(memory_cache, N))

StoredSizeOf(N) ==
  SumOver([k \in StoredKeysOf(N) |-> Len(cache[k].value.content)], StoredKeysOf(N))

\* C28: get_framework_cache_info(N) reports as memory_entries the number of
\* entries of the memory tier whose namespace is N, as disk_entries the number
\* of rows of the store whose stored namespace is N, and as total_size_bytes
\* the sum of the content lengths over both, an entry held in both tiers
\* counting twice.
C28_InfoCountsEntriesOfNamespace ==
  [][\A N \in KnownNamespaces \cup {last'.args[i] : i \in DOMAIN last'.args} :
       InfoStep(N)
       => /\ last'.ret[1].memory_entries = Cardinality(ResidentKeysOf(memory_cache, N))
          /\ last'.ret[1].disk_entries = Cardinality(StoredKeysOf(N))
          /\ last'.ret[1].total_size_bytes = MemorySizeOf(N) + StoredSizeOf(N)]_vars

\* The namespaces of the entries resident in the memory tier.
ResidentNamespaces == {memory_cache[i].entry.framework : i \in DOMAIN memory_cache}

\* C29: the index never maps a namespace to an empty set of keys; in every
\* reachable state the number of indexed namespaces, which get_stats reports
\* as indexed_frameworks, is the number of distinct namespaces among the
\* entries resident in the memory tier, and the memory_entries of get_stats is
\* the size of the memory tier.
C29_IndexedNamespacesAreResident ==
  /\ \A N \in DOMAIN _framework_keys : _framework_keys[N] # {}
  /\ Cardinality(DOMAIN _framework_keys) = Cardinality(ResidentNamespaces)
  /\ last.op = "get_stats"
     => /\ last.ret[1].indexed_frameworks = Cardinality(ResidentNamespaces)
        /\ last.ret[1].memory_entries = Len(memory_cache)

\* C23: the coroutines of one process interleave at suspension points only,
\* and no handler suspends between a change of the memory tier and the
\* matching change of the index: a handler is one step, and every state
\* another coroutine can observe is a state between two handlers.  In each of
\* them the memory tier is within its capacity, every resident entry is
\* indexed under its namespace, and every indexed key is resident with the
\* namespace it is indexed under.
C23_ObservableStatesConsistent ==
  /\ Len(memory_cache) <= MAX_MEMORY_CACHE_ENTRIES
  /\ \A i \in DOMAIN memory_cache :
       memory_cache[i].key \in IndexedKeys(_framework_keys, memory_cache[i].entry.framework)
  /\ \A N \in DOMAIN _framework_keys :
       \A k \in _framework_keys[N] :
         InMemory(memory_cache, k) /\ MemoryEntry(memory_cache, k).framework = N

\* ------------------------------------ two processes on one cache directory

\* The scheduler hands the next step to the other process.  Each process has
\* its own memory tier and index (cache.py:49-50); the store and the clock are
\* shared.
Switch ==
  /\ memory_cache' = peer.memory_cache
  /\ _framework_keys' = peer._framework_keys
  /\ recency' = peer.recency
  /\ peer' = [pid |-> 3 - peer.pid, memory_cache |-> memory_cache, _framework_keys |-> _framework_keys, recency |-> recency]
  /\ set_run' = NoRun
  /\ last' = [op |-> "switch", args |-> <<>>, ret |-> None, log |-> <<>>, evicted |-> <<>>, resident |-> FALSE, raised |-> FALSE]
  /\ UNCHANGED <<cache, now, latest>>

\* Two processes and a healthy store; every operation is one transaction of
\* the store, so the operations of the two processes interleave as whole steps.
NextShared ==
  \/ GetIn(FailTriples, {TRUE})
  \/ SetIn(FailTriples, {TRUE}, {0})
  \/ InvalidateIn(FailTriples, {TRUE})
  \/ ClearFrameworkIn(FailTriples, {TRUE})
  \/ ClearAllIn({TRUE})
  \/ DoTick
  \/ Switch

SpecShared == Init /\ [][NextShared]_vars

\* The process that takes the steps.
pid == 3 - peer.pid

\* The get of triple t does not find an unexpired entry in the memory tier.
MemoryMiss(t) ==
  \/ ~InMemory(memory_cache, KeyOf(t))
  \/ now - MemoryEntry(memory_cache, KeyOf(t)).cached_at > MemoryEntry(memory_cache, KeyOf(t)).ttl

\* C21: when two processes that share the store set the same key, the store
\* afterwards holds exactly the entry of the write applied last, every field
\* and the expire time from that one write, and a process whose get misses in
\* its memory tier while that entry is unexpired is served that entry and
\* promotes it.
C21_LastWriterWins ==
  [][\A t \in FailTriples :
       /\ SetStep(t)
          => /\ KeyOf(t) \in DOMAIN cache'
             /\ cache'[KeyOf(t)].value = EntryDict(MemoryEntry(memory_cache', KeyOf(t)))
             /\ cache'[KeyOf(t)].value.content = latest'[t].content
             /\ cache'[KeyOf(t)].value.cached_at = now
             /\ cache'[KeyOf(t)].expire_time = now + latest'[t].ttl
       /\ (GetStep(t) /\ t \in DOMAIN latest /\ MemoryMiss(t) /\ now - latest[t].cached_at <= latest[t].ttl)
          => /\ last'.ret = Some(latest[t].content)
             /\ MemoryEntry(memory_cache', KeyOf(t)) = FromDict(cache[KeyOf(t)].value)
             /\ cache[KeyOf(t)].value.content = latest[t].content
             /\ cache[KeyOf(t)].value.cached_at = latest[t].cached_at]_vars

\* Both processes have set the same key, with different contents; the process
\* whose write came first has since missed in its memory tier and has been
\* served and has promoted the entry of the other process's later write.
C21_Witness ==
  /\ last.op = "get"
  /\ Logged("expired (memory)")
  /\ Logged("Cache hit (disk)")
  /\ last.args \in DOMAIN latest
  /\ last.ret = Some(latest[last.args].content)
  /\ InMemory(peer.memory_cache, KeyOf(last.args))
  /\ MemoryEntry(peer.memory_cache, KeyOf(last.args)) = MemoryEntry(memory_cache, KeyOf(last.args))

\* C24: with two processes on one store, a set, an invalidate or a clear of
\* one process leaves the memory tier and index of the other as they were, and
\* a get of a key whose entry is resident and unexpired in the process's own
\* memory tier returns that entry's content and keeps the entry, whatever the
\* store holds for the key by then.
C24_MemoryTierIsPrivate ==
  [][/\ last'.op # "switch"
        => /\ peer'.memory_cache = peer.memory_cache
           /\ peer'._framework_keys = peer._framework_keys
     /\ \A t \in FailTriples :
          (GetStep(t) /\ ~MemoryMiss(t))
          => /\ last'.ret = Some(MemoryEntry(memory_cache, KeyOf(t)).content)
             /\ MemoryEntry(memory_cache', KeyOf(t)) = MemoryEntry(memory_cache, KeyOf(t))
             /\ cache' = cache]_vars

\* A process has got its own entry from its memory tier after the other
\* process had overwritten the key in the store with another content.
C24_Witness ==
  /\ last.op = "get"
  /\ Logged("Cache hit (memory)")
  /\ KeyOf(last.args) \in DOMAIN cache
  /\ last.ret # Some(cache[KeyOf(last.args)].value.content)
  /\ InMemory(peer.memory_cache, KeyOf(last.args))
  /\ MemoryEntry(peer.memory_cache, KeyOf(last.args)).content = cache[KeyOf(last.args)].value.content

\* ------------------------------------------- the local repository provider

\* What a call gives its caller: a value, or an exception; and the warnings
\* and errors it logged.
Returned(v, log) == [ret |-> v, raised |-> FALSE, log |-> log]

Raises(log) == [ret |-> None, raised |-> TRUE, log |-> log]

\* str.startswith, str.endswith
startswith(s, prefix) == Len(s) >= Len(prefix) /\ SubSeq(s, 1, Len(prefix)) = prefix

endswith(s, suffix) == Len(s) >= Len(suffix) /\ SubSeq(s, Len(s) - Len(suffix) + 1, Len(s)) = suffix

Whitespace == {" ", "\n", "\t"}

RECURSIVE lstrip(_)
lstrip(s) == IF Len(s) > 0 /\ SubSeq(s, 1, 1) \in Whitespace THEN lstrip(SubSeq(s, 2, Len(s))) ELSE s

RECURSIVE rstrip(_)
rstrip(s) == IF Len(s) > 0 /\ SubSeq(s, Len(s), Len(s)) \in Whitespace THEN rstrip(SubSeq(s, 1, Len(s) - 1)) ELSE s

\* str.strip()
strip(s) == rstrip(lstrip(s))

\* The position of the last '/' of a path, 0 if it has none.
LastSlash(s) ==
  IF Contains("/", s)
  THEN CHOOSE i \in 1..Len(s) : SubSeq(s, i, i) = "/" /\ \A j \in (i + 1)..Len(s) : SubSeq(s, j, j) # "/"
  ELSE 0

\* os.path.basename, os.path.dirname (paths without a trailing '/')
basename(s) == SubSeq(s, LastSlash(s) + 1, Len(s))

dirname(s) == IF LastSlash(s) > 1 THEN SubSeq(s, 1, LastSlash(s) - 1) ELSE SubSeq(s, 1, LastSlash(s))

\* _resolve_path(path, subpath) of a provider without base_path; the paths
\* used are already normal.
_resolve_path(path, subpath) ==
  IF subpath # None /\ subpath[1] # "" THEN path \o "/" \o subpath[1] ELSE path

\* A read that lets the failure of open() out as an exception.
_read_file_Unguarded(f) ==
  CASE f.read = "ok" -> Returned(Some(f.content), <<>>)
    [] f.read = "undecodable" -> Returned(Some(f.content), <<>>)
    [] f.read = "undecodable_unreadable" -> Returned(None, <<"Could not read file - encoding issue">>)
    [] f.read = "unreadable" -> Raises(<<>>)

\* _read_file(file_path).  f.read is what the file system does: "ok", the
\* file opens and decodes as utf-8; "undecodable", the read raises
\* UnicodeDecodeError and the second read, as latin-1, gives f.content;
\* "undecodable_unreadable", the second open or read fails; "unreadable", the
\* first open or read raises another exception (OSError).
_read_file(f) ==
  CASE f.read = "ok" -> Returned(Some(f.content), <<>>)
    [] f.read = "undecodable" -> Returned(Some(f.content), <<>>)
    [] f.read = "undecodable_unreadable" -> Returned(None, <<"Could not read file - encoding issue">>)
    [] f.read = "unreadable" -> Returned(None, <<"Failed to read file">>)

\* `if content:` on an Optional[str]
Truthy(r) == r.ret # None /\ r.ret[1] # ""

\* _clean_markdown(content); the three substitutions find nothing to replace
\* in the contents used here (no blank-line runs, HTML comments or ./ links).
_clean_markdown(content) == IF content = "" THEN "" ELSE strip(content)

\* _format_single_file(content, file_name)
_format_single_file(content, file_name) ==
  LET cleaned == _clean_markdown(content)
  IN  IF ~startswith(strip(cleaned), "#") THEN "# " \o file_name \o "\n\n" \o cleaned ELSE cleaned

\* file_name.replace('.md', '').replace('.mdx', '').replace('-', ' ').title(),
\* for the file names used here.
section_title == [name \in {"README.md", "guide.md"} |-> IF name = "README.md" THEN "Readme" ELSE "Guide"]

\* _format_file_content(content, file_name)
_format_file_content(content, file_name) == "## " \o section_title[file_name] \o "\n\n" \o _clean_markdown(content)

ext_map == <<<<".js", "javascript">>, <<".jsx", "jsx">>, <<".ts", "typescript">>, <<".tsx", "tsx">>, <<".py", "python">>>>

\* _detect_language(filename), with the first five entries of ext_map
_detect_language(filename) ==
  IF \E i \in DOMAIN ext_map : endswith(lower(filename), ext_map[i][1])
  THEN ext_map[CHOOSE i \in DOMAIN ext_map : endswith(lower(filename), ext_map[i][1]) /\ \A j \in 1..(i - 1) : ~endswith(lower(filename), ext_map[j][1])][2]
  ELSE "text"

\* The three backquotes that open and close a block of code in markdown,
\* written with a character a string of this language can hold.
code_fence == "'''"

code_extensions == <<".js", ".jsx", ".ts", ".tsx", ".py", ".java", ".go", ".rs", ".cpp", ".c">>

priority_files == <<"README.md", "index.md", "introduction.md", "getting-started.md">>

RECURSIVE join(_, _)
\* sep.join(parts)
join(sep, parts) ==
  IF parts = <<>> THEN ""
  ELSE IF Len(parts) = 1 THEN parts[1]
  ELSE parts[1] \o sep \o join(sep, Tail(parts))

RECURSIVE ReadAll(_)
\* The reads of the files, one after the other, until one raises: what was
\* read, what was logged, and whether an exception came out.
ReadAll(files) ==
  IF files = <<>> THEN [reads |-> <<>>, log |-> <<>>, raised |-> FALSE]
  ELSE LET r == _read_file(files[1])
       IN  IF r.raised THEN [reads |-> <<>>, log |-> r.log, raised |-> TRUE]
           ELSE LET rest == ReadAll(Tail(files))
                IN  [reads |-> <<[file |-> files[1], r |-> r]>> \o rest.reads, log |-> r.log \o rest.log, raised |-> rest.raised]

\* sequence[:n]
Take(sequence, n) == SubSeq(sequence, 1, IF Len(sequence) < n THEN Len(sequence) ELSE n)

\* _process_directory(dir_path, file_pattern) for the pattern "*.md".  node is
\* what the file system holds at dir_path: its files in the order the
\* directory lists them, and list_ok, whether the listing succeeds.
_process_directory(dir_path, node) ==
  IF ~node.list_ok THEN Raises(<<>>)
  ELSE
  LET matching_files == SelectSeq(node.files, LAMBDA f : endswith(f.name, ".md"))
      first == [i \in DOMAIN priority_files |-> SelectSeq(matching_files, LAMBDA f : f.name = priority_files[i])]
      in_first(f) == \E i \in DOMAIN priority_files : f.name = priority_files[i]
      sorted_files == Take(first[1] \o first[2] \o first[3] \o first[4] \o SelectSeq(matching_files, LAMBDA f : ~in_first(f)), 10)
      all == ReadAll(sorted_files)
      readable == SelectSeq(all.reads, LAMBDA x : Truthy(x.r))
      content_part(x) == _format_file_content(x.r.ret[1], x.file.name)
      content_parts == [i \in DOMAIN readable |-> content_part(readable[i])]
      header == "# Documentation from " \o basename(dirname(dir_path)) \o "\n" \o "**Path:** " \o basename(dir_path) \o "\n\n"
  IN  IF matching_files = <<>> THEN Returned(None, <<"No matching files found">>)
      ELSE IF all.raised THEN Raises(all.log)
      ELSE IF content_parts = <<>> THEN Returned(None, all.log \o <<"No readable files found">>)
      ELSE Returned(Some(header \o join("\n\n", content_parts)), all.log)

\* try: body except Exception: log, return `failure`
TryExcept(body, event, failure) ==
  IF body.raised THEN Returned(failure, body.log \o <<event>>) ELSE body

\* fetch_documentation(path, subpath) with the default file pattern.  node is
\* what the file system holds at the resolved path: its kind ("missing",
\* "file", "dir", or "special" for what exists and is neither), and the file
\* or the listing.
fetch_documentation(path, subpath, node) ==
  LET full_path == _resolve_path(path, subpath)
      single == _read_file(node.file)
      body ==
        IF node.kind = "missing" THEN Returned(None, <<"Path not found">>)
        ELSE IF node.kind = "file" /\ single.raised THEN Raises(single.log)
        ELSE IF node.kind = "file" /\ Truthy(single)
        THEN Returned(Some(_format_single_file(single.ret[1], basename(full_path))), single.log)
        ELSE IF node.kind = "dir" THEN _process_directory(full_path, node)
        ELSE Returned(None, (IF node.kind = "file" THEN single.log ELSE <<>>) \o <<"No documentation found">>)
  IN  TryExcept(body, "Local repository documentation fetch failed", None)

\* fetch_examples(path, subpath, pattern).  os.walk ignores the errors of the
\* listing: a directory it cannot list yields no files.
fetch_examples(path, subpath, pattern, node) ==
  LET full_path == _resolve_path(path, subpath)
      walked == IF node.list_ok THEN node.files ELSE <<>>
      is_code(f) == \E i \in DOMAIN code_extensions : endswith(lower(f.name), code_extensions[i])
      wanted(f) ==
        \/ pattern = None
        \/ pattern[1] = ""
        \/ Contains(lower(pattern[1]), lower(f.name))
        \/ Contains(lower(pattern[1]), full_path \o "/" \o f.name)
      example_files == Take(SelectSeq(walked, LAMBDA f : is_code(f) /\ wanted(f)), 5)
      all == ReadAll(example_files)
      readable == SelectSeq(all.reads, LAMBDA x : Truthy(x.r))
      example(x) == "### " \o lower(x.file.name) \o "\n\n" \o code_fence \o _detect_language(lower(x.file.name)) \o "\n" \o x.r.ret[1] \o "\n" \o code_fence \o "\n"
      examples_parts == [i \in DOMAIN readable |-> example(readable[i])]
      header == "# Examples from " \o basename(path) \o "\n"
                  \o (IF subpath # Some("examples") THEN "**Path:** " \o (IF subpath = None THEN "None" ELSE subpath[1]) \o "\n" ELSE "")
                  \o (IF pattern # None /\ pattern[1] # "" THEN "**Pattern:** " \o pattern[1] \o "\n" ELSE "")
                  \o "\n"
      body ==
        IF node.kind = "missing" THEN Returned(None, <<"Path not found">>)
        ELSE IF node.kind # "dir" THEN Returned(None, <<"Not a directory">>)
        ELSE IF example_files = <<>> THEN Returned(None, <<"No example files found">>)
        ELSE IF all.raised THEN Raises(all.log)
        ELSE IF examples_parts = <<>> THEN Returned(None, all.log \o <<"No readable example files found">>)
        ELSE Returned(Some(header \o join("\n", examples_parts)), all.log)
  IN  TryExcept(body, "Local repository examples fetch failed", None)

RECURSIVE SearchFiles(_, _)
\* The loop over the files of search_repository: a file whose read or
\* matching raises is skipped (the inner try), one that holds the query gives
\* a result.  The contents used here are single lines, so the one matching
\* line is the content and its context is the line itself.
SearchFiles(query_lower, files) ==
  IF files = <<>> THEN [results |-> <<>>, log |-> <<>>]
  ELSE LET r == TryExcept(_read_file(files[1]), "Failed to read file (debug)", None)
           rest == SearchFiles(query_lower, Tail(files))
           result == [file |-> files[1].name, matches |-> Take(<<[line_number |-> 1, content |-> r.ret[1]]>>, 3)]
       IN  IF Truthy(r) /\ Contains(query_lower, lower(r.ret[1]))
           THEN [results |-> <<result>> \o rest.results, log |-> r.log \o rest.log]
           ELSE [results |-> rest.results, log |-> r.log \o rest.log]

\* search_repository(path, query, file_extension)
search_repository(path, query, file_extension, node) ==
  LET walked == IF node.list_ok THEN node.files ELSE <<>>
      kept == SelectSeq(walked, LAMBDA f : ~(file_extension # None /\ file_extension[1] # "" /\ ~endswith(f.name, file_extension[1])))
      found == SearchFiles(lower(query), kept)
      body ==
        IF node.kind # "dir" THEN Returned(<<>>, <<"Not a directory">>)
        ELSE Returned(found.results, found.log)
  IN  TryExcept(body, "Repository search failed", <<>>)

\* What the file system can do when a file is opened and read.
ReadOutcomes == {"ok", "undecodable", "undecodable_unreadable", "unreadable"}

\* The files a directory can hold: documentation and code, with a heading,
\* with text to be stripped, or empty.
ProviderFiles ==
  [name : {"README.md", "guide.md", "app.py"}, content : {"# Docs", " note ", ""}, read : ReadOutcomes]

NoFile == [name |-> "", content |-> "", read |-> "unreadable"]

\* The listings of a directory: up to two files of different names.
Listings ==
  {<<>>} \cup {<<f>> : f \in ProviderFiles}
         \cup {l \in {<<f, g>> : f \in ProviderFiles, g \in ProviderFiles} : l[1].name # l[2].name}

\* What the file system can hold at the resolved path.
Nodes ==
  {[kind |-> k, file |-> NoFile, files |-> <<>>, list_ok |-> TRUE] : k \in {"missing", "special"}}
    \cup {[kind |-> "file", file |-> f, files |-> <<>>, list_ok |-> TRUE] : f \in ProviderFiles}
    \cup {[kind |-> "dir", file |-> NoFile, files |-> l, list_ok |-> ok] : l \in Listings, ok \in BOOLEAN}

ProviderMethods == {"fetch_documentation", "fetch_examples", "search_repository", "_read_file"}

\* The calls of the provider: the method, its arguments and the file system.
ProviderCalls ==
  {[method |-> "fetch_documentation", path |-> "/srv/repo", subpath |-> sp, pattern |-> None, query |-> "", file_extension |-> None, node |-> n] :
      sp \in {None, Some("docs")}, n \in Nodes}
    \cup {[method |-> "fetch_examples", path |-> "/srv/repo", subpath |-> Some("examples"), pattern |-> pt, query |-> "", file_extension |-> None, node |-> n] :
      pt \in {None, Some("App")}, n \in Nodes}
    \cup {[method |-> "search_repository", path |-> "/srv/repo", subpath |-> None, pattern |-> None, query |-> "Docs", file_extension |-> ext, node |-> n] :
      ext \in {None, Some(".md")}, n \in Nodes}
    \cup {[method |-> "_read_file", path |-> "/srv/repo/" \o n.file.name, subpath |-> None, pattern |-> None, query |-> "", file_extension |-> None, node |-> n] :
      n \in {m \in Nodes : m.kind = "file"}}

InitLocal == \E call \in ProviderCalls : Input(call)

\* The call returns or raises; nothing of the cache is touched.
ProviderReturn(method, r) ==
  /\ last.op = "input"
  /\ last.args.method = method
  /\ last' = [op |-> method, args |-> last.args, ret |-> r.ret, log |-> r.log, evicted |-> <<>>, resident |-> FALSE, raised |-> r.raised]
  /\ UNCHANGED <<memory_cache, _framework_keys, cache, now, latest, recency, set_run, peer>>

FetchDocumentation == ProviderReturn("fetch_documentation", fetch_documentation(last.args.path, last.args.subpath, last.args.node))

FetchExamples == ProviderReturn("fetch_examples", fetch_examples(last.args.path, last.args.subpath, last.args.pattern, last.args.node))

SearchRepository == ProviderReturn("search_repository", search_repository(last.args.path, last.args.query, last.args.file_extension, last.args.node))

ReadFile == ProviderReturn("_read_file", _read_file(last.args.node.file))

NextLocal ==
  \/ FetchDocumentation
  \/ FetchExamples
  \/ SearchRepository
  \/ ReadFile

SpecLocal == InitLocal /\ [][NextLocal]_vars

\* A method of the provider has been called.
ProviderDone == last.op \in ProviderMethods

\* What the method gives when it fails: None, or the empty list.
Failure == IF last.op = "search_repository" THEN <<>> ELSE None

\* The file cannot be read.
Unreadable(f) == f.read \in {"undecodable_unreadable", "unreadable"}

\* An error of the file system has occurred in the call: a read has failed,
\* the directory could not be listed, or the handler of the method has run.
FsError ==
  \/ \E i \in DOMAIN last.log :
       last.log[i] \in {"Failed to read file", "Could not read file - encoding issue",
                        "Local repository documentation fetch failed",
                        "Local repository examples fetch failed", "Repository search failed"}
  \/ last.args.node.kind = "dir" /\ ~last.args.node.list_ok

\* C22, as claimed: the provider never raises; fetch_documentation and
\* fetch_examples return None, and search_repository returns the empty list,
\* for a path that does not exist or when any error of the file system has
\* occurred in the call; _read_file returns None when the open or the read
\* fails.
C22_AnyErrorGivesNoneOrEmpty ==
  ProviderDone
  => /\ ~last.raised
     /\ (last.op # "_read_file" /\ (last.args.node.kind = "missing" \/ FsError)) => last.ret = Failure
     /\ (last.op = "_read_file" /\ Unreadable(last.args.node.file)) => last.ret = None

\* The files of the call's directory that can be read and are not empty.
ReadableFiles ==
  {last.args.node.files[i] : i \in {j \in DOMAIN last.args.node.files :
                                      ~Unreadable(last.args.node.files[j]) /\ last.args.node.files[j].content # ""}}

\* C22, amended: the provider never raises.  Its three fetching methods give
\* None, or the empty list for search_repository, for a path that does not
\* exist, for a directory that cannot be listed, for a file that cannot be
\* read and for a directory none of whose files can be read; a file that cannot
\* be read is skipped and the result is built from the files that can.
\* _read_file gives None when the open or the read fails, and the content
\* otherwise.
C22_NeverRaisesSkipsUnreadable ==
  ProviderDone
  => /\ ~last.raised
     /\ last.op # "_read_file"
        => /\ last.args.node.kind \in {"missing", "special"} => last.ret = Failure
           /\ (last.args.node.kind = "dir" /\ ~last.args.node.list_ok) => last.ret = Failure
           /\ (last.args.node.kind = "file" /\ Unreadable(last.args.node.file)) => last.ret = Failure
           /\ (last.args.node.kind = "dir" /\ ReadableFiles = {}) => last.ret = Failure
           /\ (last.args.node.kind = "file" /\ last.op # "fetch_documentation") => last.ret = Failure
           /\ last.op = "search_repository"
              => \A i \in DOMAIN last.ret : \E f \in ReadableFiles : f.name = last.ret[i].file
     /\ last.op = "_read_file"
        => last.ret = IF Unreadable(last.args.node.file) THEN None ELSE Some(last.args.node.file.content)

\* fetch_documentation has been given a directory one of whose files cannot be
\* read: it has logged the failure, skipped the file and returned the
\* documentation of the other.
C22_Witness ==
  /\ last.op = "fetch_documentation"
  /\ last.args.node.kind = "dir"
  /\ \E i \in DOMAIN last.args.node.files : last.args.node.files[i].read = "unreadable"
  /\ Logged("Failed to read file")
  /\ last.ret # None
  /\ ~last.raised

====
